---------------------------- MODULE Spec2Model ----------------------------
(***************************************************************************)
(* The continuous ingester of rust-evm-indexer (src/src/main.rs,           *)
(* run_continuous_ingester) and the store operations it calls              *)
(* (src/src/db.rs), as a state machine.                                    *)
(*                                                                         *)
(* One ingester task polls the provider, and for every block of the        *)
(* target range opens a database transaction, fetches the block and the    *)
(* receipts of its transactions, inserts the rows, writes the checkpoint   *)
(* and commits.  The provider and the database are the environment: every  *)
(* call may fail, the provider may answer "not found", and the process     *)
(* may be killed between any two steps.                                    *)
(*                                                                         *)
(* Option<T> values are sequences: <<>> is None and <<v>> is Some(v).      *)
(* The casts u64 <-> i64 of db.rs are the identity on every height of the  *)
(* model (all far below 2^63).                                             *)
(***************************************************************************)
EXTENDS Integers, Sequences, FiniteSets, Bags, TLC

\* ------------------------------------------------------------ constants
BLOCKS_PER_BATCH == 5
DEFAULT_START_BLOCK == 23900790
MAX_RECEIPT_RETRIES == 3
BASE_RECEIPT_BACKOFF_SECONDS == 1
MAX_BLOCK_FETCH_RETRIES == 3
BASE_BLOCK_FETCH_BACKOFF_SECONDS == 2

\* ------------------------------------------------------------ bounds
\* The chain of the model has the heights DEFAULT_START_BLOCK .. MaxHeight.
MaxBlocks == 6
\* The chain of a replay (SpecReplay) is shorter.
MaxReplayBlocks == 3
\* The chain of the liveness properties (SpecLive).
MaxLiveBlocks == 4
\* The chain of a provider that may omit number fields (SpecAnyProvider).
MaxLooseBlocks == 3
\* The blocks of the chain of a replay against a provider whose answers may
\* lack number fields
MaxLooseReplayBlocks == 2
\* Consecutive cycles that end the same way are counted up to MaxStreak.
MaxStreak == 2

MaxHeight == DEFAULT_START_BLOCK + MaxBlocks - 1
MaxReplayHeight == DEFAULT_START_BLOCK + MaxReplayBlocks - 1
MaxLiveHeight == DEFAULT_START_BLOCK + MaxLiveBlocks - 1
MaxLooseHeight == DEFAULT_START_BLOCK + MaxLooseBlocks - 1
MaxLooseReplayHeight == DEFAULT_START_BLOCK + MaxLooseReplayBlocks - 1
\* What get_block_number may answer on a chain whose tip is tip: from "behind
\* the start block" to the tip.
HeadValues(tip) == (DEFAULT_START_BLOCK - 1) .. tip

\* ------------------------------------------------------------ options
None == <<>>
Some(v) == <<v>>
\* Option::unwrap_or_default() of a numeric or hash type (the default is zero)
UnwrapOrDefault(o) == IF o = <<>> THEN 0 ELSE o[1]

\* ------------------------------------------------------------ provider data
\* What the JSON-RPC provider holds for each height: the number of
\* transactions of block n (0, 2, 1, 0, 2, 1, ...) and of logs of a receipt.
TxCount(n) == (3 - ((n - DEFAULT_START_BLOCK) % 3)) % 3
LogCount(i) == IF i = 0 THEN 2 ELSE 0
TxHash(n, i) == 10 * (n - DEFAULT_START_BLOCK) + i + 1
\* The contract that emitted the k-th log of a receipt (an H160) and the
\* log's topics (H256): the first log of a receipt has one topic, the second
\* two.  The hash of block n is modelled by n.
LogAddress(tx, k) == 1 + ((tx.hash \div 10) % 2)
LogTopics(tx, k) == IF k = 1 THEN <<5>> ELSE <<6, tx.hash>>

\* The transaction of block n at index i as get_block_with_txs returns it.
ProviderTx(n, i) ==
    [hash |-> TxHash(n, i), block_number |-> Some(n), block_hash |-> Some(n),
     transaction_index |-> Some(i)]

\* Ok(Some(b)) of provider.get_block_with_txs(n)
ProviderBlock(n) ==
    [number |-> Some(n), hash |-> Some(n),
     transactions |-> [i \in 1..TxCount(n) |-> ProviderTx(n, i - 1)]]

\* ethers::types::Block.number and Transaction.block_number are Options: an
\* answer may come without them (a pending block has none).  The block as
\* ProviderBlock(n) gives it, without its number, and with transactions
\* without their block number.
WithoutNumber(b) == [b EXCEPT !.number = None]
WithoutTxNumbers(b) ==
    [b EXCEPT !.transactions =
         [i \in DOMAIN @ |-> [@[i] EXCEPT !.block_number = None]]]

\* What Ok(Some(b)) of get_block_with_txs(n) may carry.  A conforming node
\* answers a request by number with the mined block of that number.
BlockAnswers(n, conforms) ==
    IF conforms
    THEN {ProviderBlock(n)}
    ELSE {ProviderBlock(n), WithoutNumber(ProviderBlock(n)),
          WithoutTxNumbers(ProviderBlock(n))}

\* Ok(Some(r)) of provider.get_transaction_receipt(tx.hash)
ProviderReceipt(tx) ==
    [status |-> Some(1),
     logs |-> [k \in 1..LogCount(UnwrapOrDefault(tx.transaction_index)) |->
                 [log_index |-> Some(k - 1),
                  transaction_hash |-> Some(tx.hash),
                  transaction_index |-> tx.transaction_index,
                  block_number |-> tx.block_number,
                  block_hash |-> tx.block_hash,
                  address |-> LogAddress(tx, k),
                  topics |-> LogTopics(tx, k)]]]

\* ------------------------------------------------------------ strings
\* A hexadecimal string is modelled by whether it starts with "0x", the number
\* of digits that follow, the value the digits spell and the case of its
\* letters.  format!("{:#x}", v) writes "0x" and every digit of v (64 of an
\* H256, 40 of an H160) in lowercase.
H256_DIGITS == 64
H160_DIGITS == 40
HexString(v, digits) ==
    [prefix |-> TRUE, digits |-> digits, hex |-> v, upper |-> FALSE]
\* The same string typed in uppercase letters
Uppercase(str) == [str EXCEPT !.upper = TRUE]
\* H256::from_str / Address::from_str(..).ok() then unwrap_or_default(): the
\* value of a string of the right number of digits (the prefix is optional),
\* zero for any other string and for NULL
ParseHexOrDefault(str_opt, digits) ==
    IF str_opt # <<>> /\ str_opt[1].digits = digits THEN str_opt[1].hex ELSE 0
\* SQL LOWER(str)
LOWER(str) == [str EXCEPT !.upper = FALSE]

\* ------------------------------------------------------------ rows
\* main.rs 136-144
MyBlock(b) ==
    [block_number |-> UnwrapOrDefault(b.number),
     block_hash |-> UnwrapOrDefault(b.hash)]

\* A variant of MyTransaction that stores status 0 when there is no receipt
MyTransaction_DefaultStatus(tx, receipt_opt) ==
    [tx_hash |-> tx.hash,
     block_number |-> UnwrapOrDefault(tx.block_number),
     transaction_index |-> tx.transaction_index,
     status |-> IF receipt_opt = None THEN Some(0) ELSE receipt_opt[1].status]

\* main.rs 175-190: status comes from the receipt, None without a receipt
MyTransaction(tx, receipt_opt) ==
    [tx_hash |-> tx.hash,
     block_number |-> UnwrapOrDefault(tx.block_number),
     transaction_index |-> tx.transaction_index,
     status |-> IF receipt_opt = None THEN None ELSE receipt_opt[1].status]

\* main.rs 195-204
MyLog(l) ==
    [log_index |-> l.log_index,
     transaction_hash |-> UnwrapOrDefault(l.transaction_hash),
     transaction_index |-> l.transaction_index,
     block_number |-> UnwrapOrDefault(l.block_number),
     block_hash |-> UnwrapOrDefault(l.block_hash),
     address |-> l.address,
     topics |-> [j \in DOMAIN l.topics |-> HexString(l.topics[j], H256_DIGITS)]]

\* ------------------------------------------------------------ store (db.rs)
\* The four tables.  blocks and transactions are sets of rows; logs has a
\* surrogate primary key (id), so equal rows may appear several times: a bag.
EmptyStore ==
    [blocks |-> {}, transactions |-> {}, logs |-> EmptyBag, indexer_status |-> None]

\* db.rs 10-18: SELECT last_processed_block ... fetch_optional
get_last_synced_block(s) == s.indexer_status

\* A variant of set_last_synced_block whose write is lost
set_last_synced_block_Lost(t, block_number) == t

\* db.rs 22-42: INSERT ... ON CONFLICT (indexer_name) DO UPDATE SET
\* last_processed_block = EXCLUDED.last_processed_block
set_last_synced_block(t, block_number) ==
    [t EXCEPT !.indexer_status = Some(block_number)]

\* A variant of insert_block_data: ON CONFLICT (block_number) DO UPDATE
insert_block_data_Replace(t, block) ==
    [t EXCEPT !.blocks =
         {r \in @ : r.block_number # block.block_number} \cup {block}]

\* db.rs 45-77: INSERT INTO blocks ... ON CONFLICT (block_number) DO NOTHING
insert_block_data(t, block) ==
    IF \E r \in t.blocks : r.block_number = block.block_number
    THEN t
    ELSE [t EXCEPT !.blocks = @ \cup {block}]

\* A variant of insert_transaction_data: ON CONFLICT (tx_hash) DO UPDATE
insert_transaction_data_Upsert(t, tx) ==
    [t EXCEPT !.transactions =
         {r \in @ : r.tx_hash # tx.tx_hash} \cup {tx}]

\* db.rs 80-124: INSERT INTO transactions ... ON CONFLICT (tx_hash) DO NOTHING
insert_transaction_data(t, tx) ==
    IF \E r \in t.transactions : r.tx_hash = tx.tx_hash
    THEN t
    ELSE [t EXCEPT !.transactions = @ \cup {tx}]

\* db.rs 127-168: INSERT INTO logs ... ON CONFLICT (id) DO NOTHING.  The
\* statement supplies no id: the surrogate key is always fresh and the
\* conflict clause never applies, so the row is added.
insert_log_data(t, log) ==
    [t EXCEPT !.logs = @ (+) SetToBag({log})]

\* ------------------------------------------------------------ read API (api.rs)
\* A variant of PoolView that reads the uncommitted rows of an open transaction
PoolView_ReadUncommitted(committed, open_tx) ==
    IF open_tx = <<>> THEN committed ELSE open_tx[1]

\* api.rs 155-158: the handlers run their queries on the pool (fetch_all(&pool)),
\* on a connection of their own: a query sees the committed tables and nothing
\* of the ingester's open transaction.
PoolView(committed, open_tx) == committed

\* ------------------------------------------------------------ ingester helpers
\* A variant of StartBlockToFetch that never looks at the checkpoint
StartBlockToFetch_IgnoresCheckpoint(last_synced_block_opt) ==
    DEFAULT_START_BLOCK

\* main.rs 47-58
StartBlockToFetch(last_synced_block_opt) ==
    IF last_synced_block_opt = None
    THEN DEFAULT_START_BLOCK
    ELSE last_synced_block_opt[1] + 1

Min(a, b) == IF a <= b THEN a ELSE b

\* A variant of EndBlockToFetch that takes a full batch whatever the head is
EndBlockToFetch_IgnoresHead(start, head) == start + BLOCKS_PER_BATCH - 1

\* A variant of EndBlockToFetch whose range is one height too long
EndBlockToFetch_OneMore(start, head) == Min(start + BLOCKS_PER_BATCH, head)

\* main.rs 74-75
EndBlockToFetch(start, head) == Min(start + BLOCKS_PER_BATCH - 1, head)

\* A variant of SkippedBlockTx that records the skipped height as progress
SkippedBlockTx_Advances(t, n) == set_last_synced_block(t, n)

\* main.rs 128-134: the transaction committed for a block the provider does
\* not have carries no write
SkippedBlockTx(t, n) == t

\* A variant of BackoffDuration that waits the base time before every retry
BackoffDuration_Constant(base, failed_attempt) == base

\* main.rs 121, 168: Duration::from_secs(BASE * 2_u64.pow(attempt - 1)), in
\* seconds; attempt is at most 2 here, far from the 64 bits of the product
BackoffDuration(base, failed_attempt) == base * 2 ^ (failed_attempt - 1)

\* Variants of BreaksBatch: a skip ends the batch too; nothing ends it; a
\* failed fetch does not end it
BreaksBatch_OnSkip(result) == result # "ok_true"
BreaksBatch_Never(result) == FALSE
BreaksBatch_NotOnFetchError(result) ==
    result \notin {"ok_true", "ok_false", "err_fetch_block", "err_fetch_receipt"}

\* main.rs 145, 191, 205, 210: the Err of a store operation inside the block's
\* transaction
StoreErrors == {"err_insert_block", "err_insert_tx", "err_insert_log",
                "err_set_checkpoint"}

\* main.rs 217-231: only Err(e) breaks out of the for loop
BreaksBatch(result) == result \notin {"ok_true", "ok_false"}

\* ------------------------------------------------------------ read API: numbers
Max(a, b) == IF a >= b THEN a ELSE b

\* The handlers take u64 numbers and bind them to the store as i64.  TLC's
\* integers have 32 bits, so u64 is modelled with 31 bits and i64 with 31
\* bits of which one is the sign: U64_MAX stands for 2^64 - 1 and I64_MAX
\* for 2^63 - 1.
U64_MAX == 2147483647
I64_MAX == 1073741823
\* x as i64 of a u64 x: the same bits read as a signed number
AsI64(x) == IF x > I64_MAX THEN (x - U64_MAX) - 1 ELSE x

\* u64::wrapping_add and u64::wrapping_mul: the sum and the product modulo
\* 2^64 (here 2^31), computed without leaving the range of u64
WrappingAdd(x, y) == IF x > U64_MAX - y THEN (x - (U64_MAX - y)) - 1 ELSE x + y

RECURSIVE WrappingMul(_, _)
WrappingMul(x, y) ==
    IF y = 0
    THEN 0
    ELSE LET half == WrappingMul(x, y \div 2)
             twice == WrappingAdd(half, half)
         IN  IF y % 2 = 1 THEN WrappingAdd(twice, x) ELSE twice

\* x * y does not fit a u64
MulOverflows(x, y) == y # 0 /\ x > U64_MAX \div y

\* ------------------------------------------------------------ read API: POST /logs
\* api.rs 20
MAX_PAGE_SIZE == 100
\* api_models.rs 6-13
default_page == 1
default_page_size == 25

\* api_models.rs 18-41: the request body as serde reads it; an absent page
\* and an absent pageSize take their defaults
GetLogsFilter(body) ==
    [body EXCEPT !.page = IF @ = None THEN default_page ELSE @[1],
                 !.page_size = IF @ = None THEN default_page_size ELSE @[1]]

\* api.rs 85
Page(filters) == Max(filters.page, 1)
\* A variant of PageSize without the floor
PageSize_NoFloor(filters) == Min(filters.page_size, MAX_PAGE_SIZE)
\* api.rs 86
PageSize(filters) == Max(Min(filters.page_size, MAX_PAGE_SIZE), 1)
\* A variant of Offset that counts pages from zero
Offset_FromPageZero(filters) == WrappingMul(Page(filters), PageSize(filters))
\* api.rs 87: (page - 1) * page_size in u64.  A build without overflow checks
\* (release) keeps the low 64 bits of the product.
Offset(filters) == WrappingMul(Page(filters) - 1, PageSize(filters))
\* api.rs 87: a build with overflow checks (debug) panics when the product
\* does not fit
OffsetPanics(filters, overflow_checks) ==
    overflow_checks /\ MulOverflows(Page(filters) - 1, PageSize(filters))
\* The status of a request whose handler panicked: no response is written
NO_RESPONSE == 0

\* Vec::get(j).  Indices start at 0 in the code, at 1 in a sequence.
Get(seq, j) == IF j + 1 \in DOMAIN seq THEN Some(seq[j + 1]) ELSE None

\* db.rs 132-163: the columns of the row of the logs table written for a log
LogColumns(log) ==
    [log_index_in_tx |-> log.log_index,
     transaction_hash |-> HexString(log.transaction_hash, H256_DIGITS),
     transaction_index_in_block |-> log.transaction_index,
     block_number |-> AsI64(log.block_number),
     block_hash |-> HexString(log.block_hash, H256_DIGITS),
     contract_address |-> HexString(log.address, H160_DIGITS),
     topic0 |-> Get(log.topics, 0),
     topic1 |-> Get(log.topics, 1),
     topic2 |-> Get(log.topics, 2),
     topic3 |-> Get(log.topics, 3),
     all_topics |-> log.topics]

\* api.rs 166-201: the MyLog built from a selected row
LogFromRow(c) ==
    [log_index |-> c.log_index_in_tx,
     transaction_hash |-> ParseHexOrDefault(Some(c.transaction_hash), H256_DIGITS),
     transaction_index |-> c.transaction_index_in_block,
     block_number |-> c.block_number,
     block_hash |-> ParseHexOrDefault(Some(c.block_hash), H256_DIGITS),
     address |-> ParseHexOrDefault(Some(c.contract_address), H160_DIGITS),
     topics |-> c.all_topics]

\* " AND LOWER(column) = LOWER($n)" when the filter is present.  A NULL column
\* equals nothing.
LowerEquals(column_opt, filter_opt) ==
    \/ filter_opt = None
    \/ /\ column_opt # None
       /\ LOWER(column_opt[1]) = LOWER(filter_opt[1])

\* api.rs 100-114: blockHash, or else fromBlock and toBlock
BlockSelected(filters, c) ==
    IF filters.block_hash # None
    THEN LowerEquals(Some(c.block_hash), filters.block_hash)
    ELSE /\ filters.from_block # None => c.block_number >= AsI64(filters.from_block[1])
         /\ filters.to_block # None => c.block_number <= AsI64(filters.to_block[1])

\* api.rs 96-143: the WHERE clause
Where(filters, c) ==
    /\ BlockSelected(filters, c)
    /\ LowerEquals(Some(c.contract_address), filters.address)
    /\ LowerEquals(c.topic0, filters.topic0)
    /\ LowerEquals(c.topic1, filters.topic1)
    /\ LowerEquals(c.topic2, filters.topic2)
    /\ LowerEquals(c.topic3, filters.topic3)

\* ASC order of a nullable column: NULLs come last
NullsLastLess(a, b) == a # None /\ (b = None \/ a[1] < b[1])

\* api.rs 148-149: ORDER BY block_number ASC, transaction_index_in_block ASC,
\* log_index_in_tx ASC
OrderedBefore(a, b) ==
    \/ a.block_number < b.block_number
    \/ /\ a.block_number = b.block_number
       /\ \/ NullsLastLess(a.transaction_index_in_block, b.transaction_index_in_block)
          \/ /\ a.transaction_index_in_block = b.transaction_index_in_block
             /\ \/ NullsLastLess(a.log_index_in_tx, b.log_index_in_tx)
                \/ a.log_index_in_tx = b.log_index_in_tx

\* The rows of a bag in ORDER BY order (rows that tie in any order)
RECURSIVE OrderBy(_)
OrderBy(rows) ==
    IF rows = EmptyBag
    THEN <<>>
    ELSE LET first == CHOOSE x \in BagToSet(rows) :
                          \A y \in BagToSet(rows) :
                              OrderedBefore(LogColumns(x), LogColumns(y))
         IN  <<LogColumns(first)>> \o OrderBy(rows (-) SetToBag({first}))

\* LIMIT limit OFFSET offset of an ordered result
LimitOffset(ordered, limit, offset) ==
    SubSeq(ordered, offset + 1, Min(offset + limit, Len(ordered)))

\* api.rs 90-158: the rows of SELECT ... FROM logs WHERE ... ORDER BY ... with
\* no LIMIT and no OFFSET
SelectLogs(tables, filters) ==
    LET kept == {x \in BagToSet(tables.logs) : Where(filters, LogColumns(x))}
    IN  OrderBy([x \in kept |-> tables.logs[x]])

\* api.rs 77-203: the answer of POST /logs on the tables the pool shows.  The
\* handler answers 500 when the query fails (store_answers is FALSE), as it
\* does on a negative LIMIT or OFFSET, which the store refuses.  Whether the
\* build checks arithmetic overflow is the build's choice (overflow_checks).
get_logs_handler(tables, body, store_answers, overflow_checks) ==
    LET filters == GetLogsFilter(body)
        limit == AsI64(PageSize(filters))
        offset == AsI64(Offset(filters))
    IN  IF OffsetPanics(filters, overflow_checks)
        THEN [status |-> NO_RESPONSE, limit |-> limit, offset |-> 0, rows |-> <<>>]
        ELSE IF ~store_answers \/ limit < 0 \/ offset < 0
        THEN [status |-> 500, limit |-> limit, offset |-> offset, rows |-> <<>>]
        ELSE LET rows == LimitOffset(SelectLogs(tables, filters), limit, offset)
             IN  [status |-> 200, limit |-> limit, offset |-> offset,
                  rows |-> [j \in DOMAIN rows |-> LogFromRow(rows[j])]]

\* ------------------------------------------------------------ read API: GET /transaction
\* db.rs 85-119: the columns of the row of the transactions table
TransactionColumns(tx) ==
    [tx_hash |-> HexString(tx.tx_hash, H256_DIGITS),
     block_number |-> AsI64(tx.block_number),
     transaction_index |-> tx.transaction_index,
     status |-> tx.status]

\* api.rs 337-351: the MyTransaction built from the selected row
TransactionFromRow(c) ==
    [tx_hash |-> ParseHexOrDefault(Some(c.tx_hash), H256_DIGITS),
     block_number |-> c.block_number,
     transaction_index |-> c.transaction_index,
     status |-> c.status]

\* api.rs 296-299: "0x" is put before a path value that does not start with it
FormattedTxHash(tx_hash_param) == [tx_hash_param EXCEPT !.prefix = TRUE]

\* str::to_lowercase
to_lowercase(str) == [str EXCEPT !.upper = FALSE]

\* api.rs 287-359: the answer of GET /transaction/{hash}.  queried tells
\* whether the handler sent a query to the store; 500 when the query fails
\* (store_answers is FALSE).
get_transaction_by_hash_handler(tables, tx_hash_param, store_answers) ==
    LET bound == to_lowercase(FormattedTxHash(tx_hash_param))
        found == {r \in tables.transactions : TransactionColumns(r).tx_hash = bound}
    IN  IF ~store_answers
        THEN [status |-> 500, queried |-> TRUE, rows |-> <<>>]
        ELSE IF found # {}
        THEN [status |-> 200, queried |-> TRUE,
              rows |-> <<TransactionFromRow(TransactionColumns(CHOOSE r \in found : TRUE))>>]
        ELSE [status |-> 404, queried |-> TRUE, rows |-> <<>>]

\* ------------------------------------------------------------ ingested tables
\* main.rs 136-211 with every call answered: the tables after block n and its
\* transactions, receipts and logs are written in order and the checkpoint is
\* set to n.
RECURSIVE WithLogs(_, _, _)
WithLogs(t, logs, k) ==
    IF k > Len(logs)
    THEN t
    ELSE WithLogs(insert_log_data(t, MyLog(logs[k])), logs, k + 1)

RECURSIVE WithTransactions(_, _, _)
WithTransactions(t, txs, i) ==
    IF i > Len(txs)
    THEN t
    ELSE LET receipt == ProviderReceipt(txs[i])
             with_tx == insert_transaction_data(t, MyTransaction(txs[i], Some(receipt)))
         IN  WithTransactions(WithLogs(with_tx, receipt.logs, 1), txs, i + 1)

WithBlock(t, n) ==
    LET b == ProviderBlock(n)
    IN  set_last_synced_block(
            WithTransactions(insert_block_data(t, MyBlock(b)), b.transactions, 1), n)

\* The tables after the ingester has worked through DEFAULT_START_BLOCK .. h
RECURSIVE IngestedUpTo(_)
IngestedUpTo(h) ==
    IF h < DEFAULT_START_BLOCK THEN EmptyStore ELSE WithBlock(IngestedUpTo(h - 1), h)

VARIABLES
    store,          \* the committed tables
    db_tx,          \* None, or Some(tables as the open transaction sees them)
    pc,             \* the ingester's position
    start_block_to_fetch,
    current_chain_head,
    end_block_to_fetch,
    block_num_u64,
    attempt,
    ethers_block,               \* Option: the fetched block
    idx,                        \* index (from 1) of the transaction in work
    receipt_option_for_tx,
    log_idx,                    \* index (from 1) of the log in work
    block_processing_result,    \* "" while the block is in work
    skipped,        \* history: heights whose last answer was Ok(None)
    observed,       \* history: <<>> before the first read of the checkpoint,
                    \* then <<v>>, v the Option the last read returned
    crashed_in,     \* history: Some(n) after a kill inside the work on block n
    last_failure,   \* history: Some([n, result]) of the Err that broke a batch
    last_cycle,     \* history: how the cycle before ended, and how many
                    \* cycles in a row ended that way
    pool_in_use,    \* connections of the pool the ingester holds
    cycle_log,      \* history of the cycle in work: the heights whose for
                    \* loop iteration began, and of the retry loop last
                    \* entered (kind "block", or "receipt" of transaction
                    \* idx) the provider calls made and the backoff sleeps
    snapshot,       \* replay: None, or Some(tables when the checkpoint was reset)
    same_data,      \* replay: the provider has answered as before the reset
    chain_tip,      \* the highest height the provider's chain reaches
    highest_head,   \* history: None, or Some(the highest head that
                    \* get_block_number has answered so far)
    provider_conforms,  \* the provider answers with blocks that carry their
                        \* number in every number field
    api             \* the read API: the request a handler is serving and the
                    \* response it gives

locals == <<start_block_to_fetch, current_chain_head, end_block_to_fetch,
            block_num_u64, attempt, ethers_block, idx, receipt_option_for_tx,
            log_idx, block_processing_result>>
history == <<skipped, observed, crashed_in, last_failure>>
replay == <<snapshot, same_data, chain_tip, highest_head, provider_conforms, api>>
held == <<last_cycle, pool_in_use>>
vars == <<store, db_tx, pc, locals, history, held, cycle_log, replay>>

\* ------------------------------------------------------------ replay
\* A replay re-runs the ingestion of heights the tables already cover, after
\* the checkpoint was set back.  The provider "returns the same data" when it
\* has the blocks and receipts it had for the rows of the snapshot.
BlockRowPresent(s, n) == \E r \in s.blocks : r.block_number = n

SameBlockAnswer(n, found) ==
    \/ snapshot = None
    \/ n > UnwrapOrDefault(snapshot[1].indexer_status)
    \/ found <=> BlockRowPresent(snapshot[1], n)

SameReceiptAnswer(tx, r_opt) ==
    \/ snapshot = None
    \/ \A r \in snapshot[1].transactions :
          r.tx_hash = tx.hash => ((r.status = None) <=> (r_opt = None))

\* ------------------------------------------------------------ initial state
\* The locals of a cycle that is not running, and of a block not in work.
NoBlockInWork ==
    /\ attempt' = 0
    /\ ethers_block' = None
    /\ idx' = 0
    /\ receipt_option_for_tx' = None
    /\ log_idx' = 0
    /\ block_processing_result' = ""

\* Nothing is logged of a cycle that is not running
NoCycleLog == [heights |-> <<>>, kind |-> "", idx |-> 0, calls |-> 0, waits |-> <<>>]

\* A retry loop of the given kind is entered: no call made, no sleep yet
EntersRetryLoop(log, kind, i) ==
    [log EXCEPT !.kind = kind, !.idx = i, !.calls = 0, !.waits = <<>>]

\* main.rs 100, 155: one call of the provider inside a retry loop
OneCall(log) == [log EXCEPT !.calls = @ + 1]

\* main.rs 121-123, 168-170: the call failed on an attempt before the last
\* and the loop sleeps before the next attempt
OneCallThenBackoff(log, base, failed_attempt) ==
    [log EXCEPT !.calls = @ + 1,
                !.waits = Append(@, BackoffDuration(base, failed_attempt))]

NoCycle ==
    /\ start_block_to_fetch' = 0
    /\ current_chain_head' = 0
    /\ end_block_to_fetch' = 0
    /\ block_num_u64' = 0
    /\ cycle_log' = NoCycleLog
    /\ NoBlockInWork

\* No cycle has ended yet (or the process has just started)
NoLastCycle == [end |-> "", streak |-> 0]

\* main.rs 42, 64, 70, 79, 247: the cycle ends with the poll sleep; end tells
\* which of the sleeps it is
CycleEnds(end) ==
    last_cycle' = [end |-> end,
                   streak |-> IF last_cycle.end = end
                              THEN Min(last_cycle.streak + 1, MaxStreak)
                              ELSE 1]

\* main.rs 60-61: get_block_number has answered head
HighestOf(highest_opt, head) ==
    IF highest_opt = None THEN Some(head) ELSE Some(Max(highest_opt[1], head))

\* No request is being served
NoApiCall == [handler |-> "", request |-> <<>>, response |-> <<>>]

\* main.rs 264-283: the pool is connected, the ingester task is spawned and
\* the API server listens, on the tables an earlier run of the program left.
InitFrom(tip, conforms, tables) ==
    /\ chain_tip = tip
    /\ highest_head = None
    /\ provider_conforms = conforms
    /\ api = NoApiCall
    /\ store = tables
    /\ db_tx = None
    /\ pc = "read_checkpoint"
    /\ start_block_to_fetch = 0
    /\ current_chain_head = 0
    /\ end_block_to_fetch = 0
    /\ block_num_u64 = 0
    /\ attempt = 0
    /\ ethers_block = None
    /\ idx = 0
    /\ receipt_option_for_tx = None
    /\ log_idx = 0
    /\ block_processing_result = ""
    /\ skipped = {}
    /\ observed = <<>>
    /\ crashed_in = None
    /\ last_failure = None
    /\ last_cycle = NoLastCycle
    /\ pool_in_use = 0
    /\ cycle_log = NoCycleLog
    /\ snapshot = None
    /\ same_data = TRUE

\* The tables exist and are empty on the first run
InitWith(tip, conforms) == InitFrom(tip, conforms, EmptyStore)

InitOn(tip) == InitWith(tip, TRUE)

Init == InitOn(MaxHeight)

\* ------------------------------------------------------------ the cycle
\* A variant of ReadCheckpoint that returns the Err of the read from the task
\* (as db::get_last_synced_block(&pool).await? would)
ReadCheckpoint_ErrReturns ==
    /\ pc = "read_checkpoint"
    /\ UNCHANGED replay
    /\ \/ /\ start_block_to_fetch' = StartBlockToFetch(get_last_synced_block(store))
          /\ observed' = <<get_last_synced_block(store)>>
          /\ pc' = "read_head"
          /\ UNCHANGED <<current_chain_head, end_block_to_fetch, block_num_u64,
                         attempt, ethers_block, idx, receipt_option_for_tx,
                         log_idx, block_processing_result, last_cycle,
                         cycle_log>>
       \/ \* Err(e): sleep, continue
          /\ pc' = "exited"
          /\ NoCycle
          /\ CycleEnds("checkpoint_err")
          /\ UNCHANGED observed
    /\ UNCHANGED <<store, db_tx, skipped, crashed_in, last_failure, pool_in_use>>

\* main.rs 38-58: the checkpoint is read from the pool, outside any transaction
ReadCheckpoint ==
    /\ pc = "read_checkpoint"
    /\ UNCHANGED replay
    /\ \/ /\ start_block_to_fetch' = StartBlockToFetch(get_last_synced_block(store))
          /\ observed' = <<get_last_synced_block(store)>>
          /\ pc' = "read_head"
          /\ UNCHANGED <<current_chain_head, end_block_to_fetch, block_num_u64,
                         attempt, ethers_block, idx, receipt_option_for_tx,
                         log_idx, block_processing_result, last_cycle,
                         cycle_log>>
       \/ \* Err(e): sleep, continue
          /\ pc' = "sleep"
          /\ NoCycle
          /\ CycleEnds("checkpoint_err")
          /\ UNCHANGED observed
    /\ UNCHANGED <<store, db_tx, skipped, crashed_in, last_failure, pool_in_use>>

\* A variant of ReadHead without the tests of lines 69 and 77: the batch is
\* started whatever the head is
ReadHead_NoCaughtUpCheck ==
    /\ pc = "read_head"
    /\ UNCHANGED <<snapshot, same_data, chain_tip, provider_conforms, api>>
    /\ \/ \E head \in HeadValues(chain_tip) :
            /\ highest_head' = HighestOf(highest_head, head)
            /\ current_chain_head' = head
            /\ end_block_to_fetch' = start_block_to_fetch
            /\ block_num_u64' = start_block_to_fetch
            /\ pc' = "for_loop"
            /\ last_cycle' = NoLastCycle
            /\ UNCHANGED <<start_block_to_fetch, attempt, ethers_block, idx,
                           receipt_option_for_tx, log_idx,
                           block_processing_result, cycle_log>>
       \/ /\ pc' = "sleep"
          /\ NoCycle
          /\ CycleEnds("head_err")
          /\ UNCHANGED highest_head
    /\ UNCHANGED <<store, db_tx, history, pool_in_use>>

\* main.rs 60-92: the chain head; caught up (sleep), or the range start..=end
\* and its first height.  No await lies between the answer and the for loop.
ReadHead ==
    /\ pc = "read_head"
    /\ UNCHANGED <<snapshot, same_data, chain_tip, provider_conforms, api>>
    /\ \/ \E head \in HeadValues(chain_tip) :
          /\ highest_head' = HighestOf(highest_head, head)
          /\ IF start_block_to_fetch > head
               \/ start_block_to_fetch > EndBlockToFetch(start_block_to_fetch, head)
            THEN /\ pc' = "sleep"
                 /\ NoCycle
                 /\ CycleEnds("caught_up")
            ELSE /\ current_chain_head' = head
                 /\ end_block_to_fetch' = EndBlockToFetch(start_block_to_fetch, head)
                 /\ block_num_u64' = start_block_to_fetch
                 /\ pc' = "for_loop"
                 /\ last_cycle' = NoLastCycle
                 /\ UNCHANGED <<start_block_to_fetch, attempt, ethers_block, idx,
                                receipt_option_for_tx, log_idx,
                                block_processing_result, cycle_log>>
       \/ \* Err(e): sleep, continue
          /\ pc' = "sleep"
          /\ NoCycle
          /\ CycleEnds("head_err")
          /\ UNCHANGED highest_head
    /\ UNCHANGED <<store, db_tx, history, pool_in_use>>

\* main.rs 92-96 and 237-247: the next height of the range, pool.begin(); or
\* the range is exhausted and the cycle ends with the poll sleep
ForLoop ==
    /\ pc = "for_loop"
    /\ UNCHANGED replay
    /\ IF block_num_u64 > end_block_to_fetch
       THEN /\ pc' = "sleep"
            /\ NoCycle
            /\ CycleEnds("done")
            /\ UNCHANGED <<db_tx, pool_in_use, last_failure>>
       ELSE /\ last_failure' = None
            /\ UNCHANGED <<start_block_to_fetch, current_chain_head,
                           end_block_to_fetch, block_num_u64, ethers_block, idx,
                           receipt_option_for_tx, log_idx, last_cycle>>
            /\ \/ /\ db_tx' = Some(store)
                  /\ pool_in_use' = pool_in_use + 1
                  /\ attempt' = 1
                  /\ pc' = "fetch_block"
                  /\ cycle_log' = EntersRetryLoop(
                         [cycle_log EXCEPT !.heights = Append(@, block_num_u64)],
                         "block", 0)
                  /\ UNCHANGED block_processing_result
               \/ \* pool.begin() fails
                  /\ block_processing_result' = "err_begin"
                  /\ pc' = "match_result"
                  /\ cycle_log' =
                         [cycle_log EXCEPT !.heights = Append(@, block_num_u64)]
                  /\ UNCHANGED <<db_tx, attempt, pool_in_use>>
    /\ UNCHANGED <<store, skipped, observed, crashed_in>>

\* ------------------------------------------------------------ one block
\* A variant of Returns that keeps the transaction and its connection
Returns_KeepsConnection(result) ==
    /\ block_processing_result' = result
    /\ db_tx' = db_tx
    /\ UNCHANGED held
    /\ pc' = "match_result"
    /\ attempt' = 0
    /\ ethers_block' = None
    /\ idx' = 0
    /\ receipt_option_for_tx' = None
    /\ log_idx' = 0
    /\ UNCHANGED <<start_block_to_fetch, current_chain_head,
                   end_block_to_fetch, block_num_u64>>

\* The async block of main.rs 95-215 returns: its locals, the transaction
\* handle among them, are dropped (an uncommitted sqlx transaction rolls back
\* when dropped and its connection goes back to the pool) and
\* block_processing_result holds what it returned.
Returns(result) ==
    /\ block_processing_result' = result
    /\ db_tx' = None
    /\ pool_in_use' = pool_in_use - 1
    /\ UNCHANGED last_cycle
    /\ pc' = "match_result"
    /\ attempt' = 0
    /\ ethers_block' = None
    /\ idx' = 0
    /\ receipt_option_for_tx' = None
    /\ log_idx' = 0
    /\ UNCHANGED <<start_block_to_fetch, current_chain_head,
                   end_block_to_fetch, block_num_u64>>

\* main.rs 149-154, 208-210: the next transaction of the block, or none left
NextTransaction(i) ==
    /\ receipt_option_for_tx' = None
    /\ log_idx' = 0
    /\ IF i <= Len(ethers_block'[1].transactions)
       THEN /\ idx' = i
            /\ attempt' = 1
            /\ pc' = "fetch_receipt"
            /\ cycle_log' = EntersRetryLoop(cycle_log, "receipt", i)
       ELSE /\ idx' = 0
            /\ attempt' = 0
            /\ pc' = "set_checkpoint"
            /\ UNCHANGED cycle_log

\* A variant of FetchBlock that, when the attempts are exhausted, moves the
\* checkpoint past the block
FetchBlock_ExhaustedAdvances ==
    /\ pc = "fetch_block"
    /\ \/ \* Ok(Some(b))
          /\ \E b \in BlockAnswers(block_num_u64, provider_conforms) :
                ethers_block' = Some(b)
          /\ attempt' = 0
          /\ skipped' = skipped \ {block_num_u64}
          /\ same_data' = (same_data /\ SameBlockAnswer(block_num_u64, TRUE))
          /\ pc' = "insert_block"
          /\ cycle_log' = OneCall(cycle_log)
          /\ UNCHANGED <<db_tx, start_block_to_fetch, current_chain_head,
                         end_block_to_fetch, block_num_u64, idx,
                         receipt_option_for_tx, log_idx,
                         block_processing_result, held, store>>
       \/ \* Ok(None): the block will be skipped
          /\ ethers_block' = None
          /\ attempt' = 0
          /\ skipped' = skipped \cup {block_num_u64}
          /\ same_data' = (same_data /\ SameBlockAnswer(block_num_u64, FALSE))
          /\ pc' = "skip_commit"
          /\ cycle_log' = OneCall(cycle_log)
          /\ UNCHANGED <<db_tx, start_block_to_fetch, current_chain_head,
                         end_block_to_fetch, block_num_u64, idx,
                         receipt_option_for_tx, log_idx,
                         block_processing_result, held, store>>
       \/ \* Err(e) on an attempt before the last: back off, try again
          /\ attempt < MAX_BLOCK_FETCH_RETRIES
          /\ attempt' = attempt + 1
          /\ cycle_log' = OneCallThenBackoff(cycle_log,
                               BASE_BLOCK_FETCH_BACKOFF_SECONDS, attempt)
          /\ UNCHANGED <<db_tx, pc, start_block_to_fetch, current_chain_head,
                         end_block_to_fetch, block_num_u64, ethers_block, idx,
                         receipt_option_for_tx, log_idx,
                         block_processing_result, skipped, same_data, held, store>>
       \/ \* Err(e) on the last attempt
          /\ attempt = MAX_BLOCK_FETCH_RETRIES
          /\ Returns("err_fetch_block")
          /\ cycle_log' = OneCall(cycle_log)
          /\ store' = set_last_synced_block(store, block_num_u64)
          /\ UNCHANGED <<skipped, same_data>>
    /\ UNCHANGED <<observed, crashed_in, last_failure, snapshot, chain_tip, highest_head,
                   provider_conforms, api>>

\* A variant of FetchBlock that treats Ok(None) like an Err: it asks again
\* and skips the block only when the last attempt finds none
FetchBlock_RetriesMissing ==
    /\ pc = "fetch_block"
    /\ \/ \* Ok(Some(b))
          /\ \E b \in BlockAnswers(block_num_u64, provider_conforms) :
                ethers_block' = Some(b)
          /\ attempt' = 0
          /\ skipped' = skipped \ {block_num_u64}
          /\ same_data' = (same_data /\ SameBlockAnswer(block_num_u64, TRUE))
          /\ pc' = "insert_block"
          /\ cycle_log' = OneCall(cycle_log)
          /\ UNCHANGED <<db_tx, start_block_to_fetch, current_chain_head,
                         end_block_to_fetch, block_num_u64, idx,
                         receipt_option_for_tx, log_idx,
                         block_processing_result, held>>
       \/ \* Ok(None) on an attempt before the last: asked again
          /\ attempt < MAX_BLOCK_FETCH_RETRIES
          /\ attempt' = attempt + 1
          /\ cycle_log' = OneCallThenBackoff(cycle_log,
                               BASE_BLOCK_FETCH_BACKOFF_SECONDS, attempt)
          /\ skipped' = skipped \cup {block_num_u64}
          /\ UNCHANGED <<db_tx, pc, start_block_to_fetch, current_chain_head,
                         end_block_to_fetch, block_num_u64, ethers_block, idx,
                         receipt_option_for_tx, log_idx,
                         block_processing_result, same_data, held>>
       \/ \* Ok(None) on the last attempt: the block will be skipped
          /\ attempt = MAX_BLOCK_FETCH_RETRIES
          /\ ethers_block' = None
          /\ attempt' = 0
          /\ skipped' = skipped \cup {block_num_u64}
          /\ same_data' = (same_data /\ SameBlockAnswer(block_num_u64, FALSE))
          /\ pc' = "skip_commit"
          /\ cycle_log' = OneCall(cycle_log)
          /\ UNCHANGED <<db_tx, start_block_to_fetch, current_chain_head,
                         end_block_to_fetch, block_num_u64, idx,
                         receipt_option_for_tx, log_idx,
                         block_processing_result, held>>
       \/ \* Err(e) on an attempt before the last: back off, try again
          /\ attempt < MAX_BLOCK_FETCH_RETRIES
          /\ attempt' = attempt + 1
          /\ cycle_log' = OneCallThenBackoff(cycle_log,
                               BASE_BLOCK_FETCH_BACKOFF_SECONDS, attempt)
          /\ UNCHANGED <<db_tx, pc, start_block_to_fetch, current_chain_head,
                         end_block_to_fetch, block_num_u64, ethers_block, idx,
                         receipt_option_for_tx, log_idx,
                         block_processing_result, skipped, same_data, held>>
       \/ \* Err(e) on the last attempt
          /\ attempt = MAX_BLOCK_FETCH_RETRIES
          /\ Returns("err_fetch_block")
          /\ cycle_log' = OneCall(cycle_log)
          /\ UNCHANGED <<skipped, same_data>>
    /\ UNCHANGED <<store, observed, crashed_in, last_failure, snapshot, chain_tip, highest_head,
                   provider_conforms, api>>

\* main.rs 98-134: get_block_with_txs, up to MAX_BLOCK_FETCH_RETRIES attempts
FetchBlock ==
    /\ pc = "fetch_block"
    /\ \/ \* Ok(Some(b))
          /\ \E b \in BlockAnswers(block_num_u64, provider_conforms) :
                ethers_block' = Some(b)
          /\ attempt' = 0
          /\ skipped' = skipped \ {block_num_u64}
          /\ same_data' = (same_data /\ SameBlockAnswer(block_num_u64, TRUE))
          /\ pc' = "insert_block"
          /\ cycle_log' = OneCall(cycle_log)
          /\ UNCHANGED <<db_tx, start_block_to_fetch, current_chain_head,
                         end_block_to_fetch, block_num_u64, idx,
                         receipt_option_for_tx, log_idx,
                         block_processing_result, held>>
       \/ \* Ok(None): the block will be skipped
          /\ ethers_block' = None
          /\ attempt' = 0
          /\ skipped' = skipped \cup {block_num_u64}
          /\ same_data' = (same_data /\ SameBlockAnswer(block_num_u64, FALSE))
          /\ pc' = "skip_commit"
          /\ cycle_log' = OneCall(cycle_log)
          /\ UNCHANGED <<db_tx, start_block_to_fetch, current_chain_head,
                         end_block_to_fetch, block_num_u64, idx,
                         receipt_option_for_tx, log_idx,
                         block_processing_result, held>>
       \/ \* Err(e) on an attempt before the last: back off, try again
          /\ attempt < MAX_BLOCK_FETCH_RETRIES
          /\ attempt' = attempt + 1
          /\ cycle_log' = OneCallThenBackoff(cycle_log,
                               BASE_BLOCK_FETCH_BACKOFF_SECONDS, attempt)
          /\ UNCHANGED <<db_tx, pc, start_block_to_fetch, current_chain_head,
                         end_block_to_fetch, block_num_u64, ethers_block, idx,
                         receipt_option_for_tx, log_idx,
                         block_processing_result, skipped, same_data, held>>
       \/ \* Err(e) on the last attempt
          /\ attempt = MAX_BLOCK_FETCH_RETRIES
          /\ Returns("err_fetch_block")
          /\ cycle_log' = OneCall(cycle_log)
          /\ UNCHANGED <<skipped, same_data>>
    /\ UNCHANGED <<store, observed, crashed_in, last_failure, snapshot, chain_tip, highest_head,
                   provider_conforms, api>>

\* main.rs 128-134: the provider has no such block; the transaction, which
\* wrote nothing, is committed and the block returns Ok(false)
SkipCommit ==
    /\ pc = "skip_commit"
    /\ UNCHANGED replay
    /\ \/ /\ store' = SkippedBlockTx(db_tx[1], block_num_u64)
          /\ Returns("ok_false")
       \/ \* commit fails
          /\ Returns("err_commit_skip")
          /\ UNCHANGED store
    /\ UNCHANGED <<history, cycle_log>>

\* main.rs 136-148
InsertBlock ==
    /\ pc = "insert_block"
    /\ UNCHANGED replay
    /\ \/ /\ db_tx' = Some(insert_block_data(db_tx[1], MyBlock(ethers_block[1])))
          /\ UNCHANGED <<ethers_block, start_block_to_fetch, current_chain_head,
                         end_block_to_fetch, block_num_u64,
                         block_processing_result, held>>
          /\ NextTransaction(1)
       \/ /\ Returns("err_insert_block")
          /\ UNCHANGED cycle_log
    /\ UNCHANGED <<store, history>>

\* A variant of FetchReceipt without the retry: the first Err of the call
\* fails the block
FetchReceipt_NoRetry ==
    /\ pc = "fetch_receipt"
    /\ \/ /\ \E r_opt \in {Some(ProviderReceipt(ethers_block[1].transactions[idx])),
                           None} :
                /\ receipt_option_for_tx' = r_opt
                /\ same_data' = (same_data /\
                       SameReceiptAnswer(ethers_block[1].transactions[idx], r_opt))
          /\ attempt' = 0
          /\ pc' = "insert_tx"
          /\ cycle_log' = OneCall(cycle_log)
          /\ UNCHANGED <<db_tx, start_block_to_fetch, current_chain_head,
                         end_block_to_fetch, block_num_u64, ethers_block, idx,
                         log_idx, block_processing_result, held>>
       \/ /\ Returns("err_fetch_receipt")
          /\ cycle_log' = OneCall(cycle_log)
          /\ UNCHANGED same_data
    /\ UNCHANGED <<store, history, snapshot, chain_tip, highest_head, provider_conforms, api>>

\* A variant of FetchReceipt that, when the attempts are exhausted, commits
\* what the block's transaction has written so far
FetchReceipt_ExhaustedCommits ==
    /\ pc = "fetch_receipt"
    /\ \/ \* Ok(r_opt): a receipt, or none ("proceeding without receipt data")
          /\ \E r_opt \in {Some(ProviderReceipt(ethers_block[1].transactions[idx])),
                           None} :
                /\ receipt_option_for_tx' = r_opt
                /\ same_data' = (same_data /\
                       SameReceiptAnswer(ethers_block[1].transactions[idx], r_opt))
          /\ attempt' = 0
          /\ pc' = "insert_tx"
          /\ cycle_log' = OneCall(cycle_log)
          /\ UNCHANGED <<db_tx, start_block_to_fetch, current_chain_head,
                         end_block_to_fetch, block_num_u64, ethers_block, idx,
                         log_idx, block_processing_result, held, store>>
       \/ \* Err(e) on an attempt before the last: back off, try again
          /\ attempt < MAX_RECEIPT_RETRIES
          /\ attempt' = attempt + 1
          /\ cycle_log' = OneCallThenBackoff(cycle_log,
                               BASE_RECEIPT_BACKOFF_SECONDS, attempt)
          /\ UNCHANGED <<db_tx, pc, start_block_to_fetch, current_chain_head,
                         end_block_to_fetch, block_num_u64, ethers_block, idx,
                         receipt_option_for_tx, log_idx,
                         block_processing_result, same_data, held, store>>
       \/ \* Err(e) on the last attempt
          /\ attempt = MAX_RECEIPT_RETRIES
          /\ Returns("err_fetch_receipt")
          /\ cycle_log' = OneCall(cycle_log)
          /\ store' = db_tx[1]
          /\ UNCHANGED same_data
    /\ UNCHANGED <<history, snapshot, chain_tip, highest_head, provider_conforms, api>>

\* main.rs 153-173: get_transaction_receipt, up to MAX_RECEIPT_RETRIES attempts
FetchReceipt ==
    /\ pc = "fetch_receipt"
    /\ \/ \* Ok(r_opt): a receipt, or none ("proceeding without receipt data")
          /\ \E r_opt \in {Some(ProviderReceipt(ethers_block[1].transactions[idx])),
                           None} :
                /\ receipt_option_for_tx' = r_opt
                /\ same_data' = (same_data /\
                       SameReceiptAnswer(ethers_block[1].transactions[idx], r_opt))
          /\ attempt' = 0
          /\ pc' = "insert_tx"
          /\ cycle_log' = OneCall(cycle_log)
          /\ UNCHANGED <<db_tx, start_block_to_fetch, current_chain_head,
                         end_block_to_fetch, block_num_u64, ethers_block, idx,
                         log_idx, block_processing_result, held>>
       \/ \* Err(e) on an attempt before the last: back off, try again
          /\ attempt < MAX_RECEIPT_RETRIES
          /\ attempt' = attempt + 1
          /\ cycle_log' = OneCallThenBackoff(cycle_log,
                               BASE_RECEIPT_BACKOFF_SECONDS, attempt)
          /\ UNCHANGED <<db_tx, pc, start_block_to_fetch, current_chain_head,
                         end_block_to_fetch, block_num_u64, ethers_block, idx,
                         receipt_option_for_tx, log_idx,
                         block_processing_result, same_data, held>>
       \/ \* Err(e) on the last attempt
          /\ attempt = MAX_RECEIPT_RETRIES
          /\ Returns("err_fetch_receipt")
          /\ cycle_log' = OneCall(cycle_log)
          /\ UNCHANGED same_data
    /\ UNCHANGED <<store, history, snapshot, chain_tip, highest_head, provider_conforms, api>>

\* A variant of InsertTransaction that swallows the error of the insert and
\* goes on without the row
InsertTransaction_IgnoresError ==
    /\ pc = "insert_tx"
    /\ UNCHANGED replay
    /\ UNCHANGED <<ethers_block, start_block_to_fetch, current_chain_head,
                   end_block_to_fetch, block_num_u64, block_processing_result,
                   held>>
    /\ \/ /\ db_tx' = Some(insert_transaction_data(db_tx[1],
                        MyTransaction(ethers_block[1].transactions[idx],
                                      receipt_option_for_tx)))
          /\ IF receipt_option_for_tx # None
                /\ Len(receipt_option_for_tx[1].logs) > 0
             THEN /\ log_idx' = 1
                  /\ pc' = "insert_log"
                  /\ UNCHANGED <<idx, attempt, receipt_option_for_tx, cycle_log>>
             ELSE NextTransaction(idx + 1)
       \/ /\ UNCHANGED db_tx
          /\ NextTransaction(idx + 1)
    /\ UNCHANGED <<store, history>>

\* main.rs 175-194
InsertTransaction ==
    /\ pc = "insert_tx"
    /\ UNCHANGED replay
    /\ \/ /\ db_tx' = Some(insert_transaction_data(db_tx[1],
                        MyTransaction(ethers_block[1].transactions[idx],
                                      receipt_option_for_tx)))
          /\ UNCHANGED <<ethers_block, start_block_to_fetch, current_chain_head,
                         end_block_to_fetch, block_num_u64,
                         block_processing_result, held>>
          /\ IF receipt_option_for_tx # None
                /\ Len(receipt_option_for_tx[1].logs) > 0
             THEN /\ log_idx' = 1
                  /\ pc' = "insert_log"
                  /\ UNCHANGED <<idx, attempt, receipt_option_for_tx, cycle_log>>
             ELSE NextTransaction(idx + 1)
       \/ /\ Returns("err_insert_tx")
          /\ UNCHANGED cycle_log
    /\ UNCHANGED <<store, history>>

\* main.rs 193-207
InsertLog ==
    /\ pc = "insert_log"
    /\ UNCHANGED replay
    /\ \/ /\ db_tx' = Some(insert_log_data(db_tx[1],
                        MyLog(receipt_option_for_tx[1].logs[log_idx])))
          /\ UNCHANGED <<ethers_block, start_block_to_fetch, current_chain_head,
                         end_block_to_fetch, block_num_u64,
                         block_processing_result, held>>
          /\ IF log_idx < Len(receipt_option_for_tx[1].logs)
             THEN /\ log_idx' = log_idx + 1
                  /\ UNCHANGED <<pc, idx, attempt, receipt_option_for_tx,
                                 cycle_log>>
             ELSE NextTransaction(idx + 1)
       \/ /\ Returns("err_insert_log")
          /\ UNCHANGED cycle_log
    /\ UNCHANGED <<store, history>>

\* A variant of SetCheckpoint that writes the checkpoint through the pool,
\* outside the block's transaction
SetCheckpoint_ViaPool ==
    /\ pc = "set_checkpoint"
    /\ UNCHANGED replay
    /\ \/ /\ store' = set_last_synced_block(store, block_num_u64)
          /\ db_tx' = Some(set_last_synced_block(db_tx[1], block_num_u64))
          /\ pc' = "commit"
          /\ UNCHANGED <<locals, held>>
       \/ /\ Returns("err_set_checkpoint")
          /\ UNCHANGED store
    /\ UNCHANGED <<history, cycle_log>>

\* main.rs 210
SetCheckpoint ==
    /\ pc = "set_checkpoint"
    /\ UNCHANGED replay
    /\ \/ /\ db_tx' = Some(set_last_synced_block(db_tx[1], block_num_u64))
          /\ pc' = "commit"
          /\ UNCHANGED <<locals, held>>
       \/ Returns("err_set_checkpoint")
    /\ UNCHANGED <<store, history, cycle_log>>

\* main.rs 211-214: commit.  A commit that reports an error has normally
\* written nothing; when the connection breaks after the server committed,
\* the rows and the checkpoint are in the tables all the same.
Commit ==
    /\ pc = "commit"
    /\ UNCHANGED replay
    /\ \/ /\ store' = db_tx[1]
          /\ Returns("ok_true")
       \/ /\ store' \in {store, db_tx[1]}
          /\ Returns("err_commit")
    /\ UNCHANGED <<history, cycle_log>>

\* A variant of MatchResult in which a failed commit ends the task with the
\* error (main.rs 277-278 would log it)
MatchResult_CommitFatal ==
    /\ pc = "match_result"
    /\ UNCHANGED replay
    /\ IF block_processing_result = "err_commit"
       THEN /\ pc' = "exited"
            /\ NoCycle
            /\ UNCHANGED <<last_failure, last_cycle>>
       ELSE IF BreaksBatch(block_processing_result)
       THEN /\ last_failure' =
                 Some([n |-> block_num_u64, result |-> block_processing_result])
            /\ pc' = "sleep"
            /\ NoCycle
            /\ CycleEnds("broken")
       ELSE /\ block_num_u64' = block_num_u64 + 1
            /\ pc' = "for_loop"
            /\ NoBlockInWork
            /\ cycle_log' = EntersRetryLoop(cycle_log, "", 0)
            /\ UNCHANGED <<start_block_to_fetch, current_chain_head,
                           end_block_to_fetch, last_failure, last_cycle>>
    /\ UNCHANGED <<store, db_tx, skipped, observed, crashed_in, pool_in_use>>

\* main.rs 217-235: Ok goes on with the next height, Err breaks the batch and
\* the cycle ends with the poll sleep (237-247)
MatchResult ==
    /\ pc = "match_result"
    /\ UNCHANGED replay
    /\ IF BreaksBatch(block_processing_result)
       THEN /\ last_failure' =
                 Some([n |-> block_num_u64, result |-> block_processing_result])
            /\ pc' = "sleep"
            /\ NoCycle
            /\ CycleEnds("broken")
       ELSE /\ block_num_u64' = block_num_u64 + 1
            /\ pc' = "for_loop"
            /\ NoBlockInWork
            /\ cycle_log' = EntersRetryLoop(cycle_log, "", 0)
            /\ UNCHANGED <<start_block_to_fetch, current_chain_head,
                           end_block_to_fetch, last_failure, last_cycle>>
    /\ UNCHANGED <<store, db_tx, skipped, observed, crashed_in, pool_in_use>>

\* main.rs 42, 64, 70, 79, 247: tokio::time::sleep(POLL_INTERVAL_SECONDS) ends
Wake ==
    /\ pc = "sleep"
    /\ UNCHANGED replay
    /\ pc' = "read_checkpoint"
    /\ UNCHANGED <<store, db_tx, locals, history, held, cycle_log>>

\* ------------------------------------------------------------ kill, restart
BlockPcs == {"fetch_block", "skip_commit", "insert_block", "fetch_receipt",
             "insert_tx", "insert_log", "set_checkpoint", "commit",
             "match_result"}

\* The process is killed (or the task cancelled) at any suspension point: the
\* open transaction, if any, is rolled back by the database.
Crash ==
    /\ pc # "crashed"
    /\ UNCHANGED replay
    /\ pc' = "crashed"
    /\ db_tx' = None
    /\ NoCycle
    /\ crashed_in' = IF pc \in BlockPcs THEN Some(block_num_u64) ELSE None
    /\ last_failure' = None
    /\ last_cycle' = NoLastCycle
    /\ pool_in_use' = 0
    /\ UNCHANGED <<store, skipped, observed>>

\* main.rs 252-283: the process starts again and spawns the ingester
Restart ==
    /\ pc = "crashed"
    /\ UNCHANGED replay
    /\ pc' = "read_checkpoint"
    /\ crashed_in' = None
    /\ UNCHANGED <<store, db_tx, locals, skipped, observed, last_failure, held,
                   cycle_log>>

Next ==
    \/ ReadCheckpoint
    \/ ReadHead
    \/ ForLoop
    \/ FetchBlock
    \/ SkipCommit
    \/ InsertBlock
    \/ FetchReceipt
    \/ InsertTransaction
    \/ InsertLog
    \/ SetCheckpoint
    \/ Commit
    \/ MatchResult
    \/ Wake
    \/ Crash
    \/ Restart

Spec == Init /\ [][Next]_vars

\* ------------------------------------------------------------ replay
\* An operator stops the ingester between two cycles, sets the checkpoint row
\* back to an earlier value and lets the ingester run again.
ResetCheckpoint ==
    /\ pc = "sleep"
    /\ snapshot = None
    /\ store.indexer_status # None
    /\ \E v \in (DEFAULT_START_BLOCK - 1) .. (store.indexer_status[1] - 1) :
          store' = [store EXCEPT !.indexer_status = Some(v)]
    /\ snapshot' = Some(store)
    /\ last_failure' = None
    /\ UNCHANGED <<db_tx, pc, locals, skipped, observed, crashed_in, same_data,
                   chain_tip, highest_head, provider_conforms, api, held, cycle_log>>

InitReplay == InitOn(MaxReplayHeight)

SpecReplay == InitReplay /\ [][Next \/ ResetCheckpoint]_vars

\* ------------------------------------------------------------ any provider
\* The ingester against a provider whose answers may lack number fields.
InitAnyProvider == InitWith(MaxLooseHeight, FALSE)

SpecAnyProvider == InitAnyProvider /\ [][Next]_vars

\* A replay against such a provider: the answers for a height may differ
\* from those that wrote its rows.
InitAnyReplay == InitWith(MaxLooseReplayHeight, FALSE)

SpecAnyReplay == InitAnyReplay /\ [][Next \/ ResetCheckpoint]_vars

\* ------------------------------------------------------------ read API
\* The API server answers requests on tables that an earlier run of the
\* ingester filled up to some height and that do not change meanwhile.
MaxApiBlocks == 5
MaxApiHeight == DEFAULT_START_BLOCK + MaxApiBlocks - 1
\* The highest page a request asks for
MaxPages == 3

SomeOrNone(S) == {None} \cup {Some(x) : x \in S}

\* The request bodies of POST /logs: heights, hashes, addresses and topics the
\* tables hold, typed in either case, and the largest u64; the first pages,
\* page 2^63 + 2 and the last page a u64 can name
LogsBodies ==
    [from_block : SomeOrNone({DEFAULT_START_BLOCK + 2, U64_MAX}),
     to_block : SomeOrNone({DEFAULT_START_BLOCK + 2, U64_MAX}),
     block_hash : SomeOrNone({HexString(DEFAULT_START_BLOCK + 1, H256_DIGITS),
                              Uppercase(HexString(DEFAULT_START_BLOCK + 2, H256_DIGITS))}),
     address : SomeOrNone({HexString(1, H160_DIGITS),
                           Uppercase(HexString(2, H160_DIGITS))}),
     topic0 : SomeOrNone({HexString(5, H256_DIGITS),
                          Uppercase(HexString(6, H256_DIGITS))}),
     topic1 : SomeOrNone({HexString(TxHash(DEFAULT_START_BLOCK + 1, 0), H256_DIGITS)}),
     topic2 : SomeOrNone({HexString(5, H256_DIGITS)}),
     topic3 : {None},
     page : SomeOrNone((0 .. MaxPages) \cup {I64_MAX + 2, U64_MAX}),
     page_size : SomeOrNone({0, 1, 2, 3, MAX_PAGE_SIZE, MAX_PAGE_SIZE + 1})]

\* The path values of GET /transaction/{hash}: with and without "0x", of 3, 64
\* and 65 digits, in either case, of hashes the tables hold and of one they
\* do not
TxHashParams ==
    [prefix : BOOLEAN, digits : {3, H256_DIGITS, H256_DIGITS + 1},
     hex : {TxHash(DEFAULT_START_BLOCK + 1, 0), TxHash(DEFAULT_START_BLOCK + 1, 1), 99},
     upper : BOOLEAN]

\* api.rs 77-203: POST /logs is served
PostLogs ==
    /\ api = NoApiCall
    /\ \E body \in LogsBodies, store_answers \in BOOLEAN,
             overflow_checks \in BOOLEAN :
          api' = [handler |-> "logs", request |-> body,
                  response |-> get_logs_handler(PoolView(store, db_tx), body,
                                                store_answers, overflow_checks)]
    /\ UNCHANGED <<store, db_tx, pc, locals, history, held, cycle_log,
                   snapshot, same_data, chain_tip, highest_head, provider_conforms>>

\* api.rs 287-359: GET /transaction/{hash} is served
GetTransaction ==
    /\ api = NoApiCall
    /\ \E tx_hash_param \in TxHashParams, store_answers \in BOOLEAN :
          api' = [handler |-> "transaction", request |-> tx_hash_param,
                  response |-> get_transaction_by_hash_handler(
                                   PoolView(store, db_tx), tx_hash_param,
                                   store_answers)]
    /\ UNCHANGED <<store, db_tx, pc, locals, history, held, cycle_log,
                   snapshot, same_data, chain_tip, highest_head, provider_conforms>>

\* api.rs 202, 352-357: the response leaves; a handler keeps nothing of a
\* request it has served
ResponseSent ==
    /\ api # NoApiCall
    /\ api' = NoApiCall
    /\ UNCHANGED <<store, db_tx, pc, locals, history, held, cycle_log,
                   snapshot, same_data, chain_tip, highest_head, provider_conforms>>

InitApi ==
    \E h \in (DEFAULT_START_BLOCK - 1) .. MaxApiHeight :
        InitFrom(MaxApiHeight, TRUE, IngestedUpTo(h))

NextApi == PostLogs \/ GetTransaction \/ ResponseSent

SpecApi == InitApi /\ [][NextApi]_vars

\* ======================================================================
\* Properties
\* ======================================================================
Checkpoint == store.indexer_status

TxRowsOf(s, n) == {r \in s.transactions : r.block_number = n}
LogRowsOf(s, n) == {r \in BagToSet(s.logs) : r.block_number = n}

NoRowPresent(s, n) ==
    /\ ~BlockRowPresent(s, n)
    /\ TxRowsOf(s, n) = {}
    /\ LogRowsOf(s, n) = {}

\* The rows the work on block n writes: the block row, one row per
\* transaction, and the logs of every transaction written with a receipt.
AllRowsPresent(s, n) ==
    /\ BlockRowPresent(s, n)
    /\ \A i \in 1..TxCount(n) :
         LET tx == ProviderTx(n, i - 1)
             logs == ProviderReceipt(tx).logs
         IN \E r \in s.transactions :
               /\ r.tx_hash = tx.hash
               /\ r.block_number = n
               /\ r.status # None =>
                    \A k \in 1..Len(logs) : BagIn(MyLog(logs[k]), s.logs)

\* a <= b on Option<u64>, None below every number
OptLeq(a, b) == a = None \/ (b # None /\ a[1] <= b[1])

FetchErrors == {"err_fetch_block", "err_fetch_receipt"}

\* ------------------------------------------------------------------ C1
\* C1 as stated: after a kill inside the work on block n, either all rows of
\* n are present and the checkpoint is n, or no row of n is present and the
\* checkpoint is n - 1 (no checkpoint yet when n is the default start block).
C1_AtomicProgressAsStated ==
    (pc = "crashed" /\ crashed_in # None) =>
        LET n == crashed_in[1] IN
        \/ AllRowsPresent(store, n) /\ Checkpoint = Some(n)
        \/ /\ NoRowPresent(store, n)
           /\ \/ Checkpoint = Some(n - 1)
              \/ Checkpoint = None /\ n = DEFAULT_START_BLOCK

\* C1 amended: after a kill inside the work on block n, either all rows of n
\* are present and the checkpoint is n, or no row of n is present and the
\* checkpoint is still below n: it is n - 1, or lower (or absent) exactly when
\* every height between it and n was skipped as not found.
C1_AtomicProgress ==
    (pc = "crashed" /\ crashed_in # None) =>
        LET n == crashed_in[1] IN
        \/ AllRowsPresent(store, n) /\ Checkpoint = Some(n)
        \/ /\ NoRowPresent(store, n)
           /\ Checkpoint = None \/ Checkpoint[1] < n
           /\ \A h \in StartBlockToFetch(Checkpoint) .. (n - 1) : h \in skipped

\* C1 witness: a kill inside block n, two heights above the checkpoint, with
\* transactions; nothing of n is visible.
C1_Witness ==
    /\ pc = "crashed"
    /\ crashed_in # None
    /\ TxCount(crashed_in[1]) = 2
    /\ Checkpoint = Some(crashed_in[1] - 2)
    /\ NoRowPresent(store, crashed_in[1])

\* ------------------------------------------------------------------ C2
\* C2: in every committed state no block, transaction or log row has a block
\* number above the checkpoint (no row at all without a checkpoint), and the
\* block row of the checkpoint's height is present.
C2_CheckpointMatchesData ==
    /\ \A r \in store.blocks \cup store.transactions \cup BagToSet(store.logs) :
          Checkpoint # None /\ r.block_number <= Checkpoint[1]
    /\ Checkpoint # None => BlockRowPresent(store, Checkpoint[1])

\* C2 witness: a block with transactions and logs is written and the
\* checkpoint set inside the open transaction, none of it committed yet.
C2_Witness ==
    /\ pc = "commit"
    /\ Checkpoint # None
    /\ db_tx[1].indexer_status = Some(Checkpoint[1] + 1)
    /\ TxRowsOf(db_tx[1], Checkpoint[1] + 1) # {}
    /\ LogRowsOf(db_tx[1], Checkpoint[1] + 1) # {}

\* ------------------------------------------------------------------ C3
\* C3: the values get_last_synced_block returns never decrease from one read
\* to the next, and neither does the committed checkpoint from one step to
\* the next, whatever fails, is skipped or is killed in between.
C3_MonotonicCheckpoint ==
    [][/\ (observed # <<>> /\ observed' # <<>>) => OptLeq(observed[1], observed'[1])
       /\ OptLeq(store.indexer_status, store'.indexer_status)]_vars

\* C3 witness: after a cycle that skipped a height, a read returns a checkpoint two
\* blocks above the default start block.
C3_Witness ==
    /\ pc = "read_head"
    /\ observed = <<Some(DEFAULT_START_BLOCK + 2)>>
    /\ last_failure = None
    /\ skipped # {}

\* ------------------------------------------------------------------ C4
\* C4 as stated: the checkpoint never reaches a value >= n while n is a
\* skipped height without a block row.
C4_SkipIsRetriedAsStated ==
    \A n \in skipped :
        ~(Checkpoint # None /\ Checkpoint[1] >= n /\ ~BlockRowPresent(store, n))

\* C4 amended: the skip of n itself commits nothing (rows and checkpoint stay
\* as they were) and the cycle goes on with n + 1; a height is attempted only
\* while the checkpoint is below it, so n is attempted again only if no later
\* block committed first.
C4_SkipCommitsNothing ==
    /\ [][(pc = "skip_commit" /\ block_processing_result' = "ok_false")
             => store' = store]_vars
    /\ [][(pc = "match_result" /\ block_processing_result = "ok_false"
             /\ pc' # "crashed")
             => (pc' = "for_loop" /\ block_num_u64' = block_num_u64 + 1)]_vars
    /\ [](pc = "fetch_block" => (Checkpoint = None \/ Checkpoint[1] < block_num_u64))

\* C4 witness: the height below the one being fetched was skipped in this
\* cycle, and the checkpoint is below both.
C4_Witness ==
    /\ pc = "fetch_block"
    /\ block_num_u64 > start_block_to_fetch
    /\ (block_num_u64 - 1) \in skipped
    /\ Checkpoint # None

\* ------------------------------------------------------------------ C5
\* C5: every height from the default start block (the first height ever
\* ingested) to the checkpoint has its block row, except the heights the
\* provider last answered "not found" for.
C5_NoGaps ==
    Checkpoint # None =>
        \A h \in DEFAULT_START_BLOCK .. Checkpoint[1] :
            BlockRowPresent(store, h) \/ h \in skipped

\* C5 witness: the checkpoint is past a skipped height without a row and
\* past a height with a row.
C5_Witness ==
    /\ Checkpoint # None
    /\ \E h \in DEFAULT_START_BLOCK .. Checkpoint[1] :
          h \in skipped /\ ~BlockRowPresent(store, h)
    /\ \E h \in DEFAULT_START_BLOCK .. (Checkpoint[1] - 1) :
          BlockRowPresent(store, h)

\* ------------------------------------------------------------------ C6
Rows(s) == [blocks |-> s.blocks, transactions |-> s.transactions, logs |-> s.logs]

\* C6: once a replay against a provider that answers as before has brought
\* the checkpoint back to where it was, the block, transaction and log rows
\* equal those before the reset.
C6_ReplayEquivalence ==
    (/\ snapshot # None
     /\ same_data
     /\ store.indexer_status = snapshot[1].indexer_status)
        => Rows(store) = Rows(snapshot[1])

\* ------------------------------------------------------------------ C7
\* C7: the logs table holds at most one row per (transaction_hash,
\* log_index), and inserting a log whose key already has a row changes
\* nothing.
C7_PutLogIdempotent ==
    /\ \A r1, r2 \in BagToSet(store.logs) :
          (r1.transaction_hash = r2.transaction_hash /\ r1.log_index = r2.log_index)
              => (r1 = r2 /\ CopiesIn(r1, store.logs) = 1)
    /\ (pc = "insert_log" /\
        \E r \in BagToSet(db_tx[1].logs) :
            LET l == MyLog(receipt_option_for_tx[1].logs[log_idx]) IN
            r.transaction_hash = l.transaction_hash /\ r.log_index = l.log_index)
          => insert_log_data(db_tx[1], MyLog(receipt_option_for_tx[1].logs[log_idx]))
               = db_tx[1]

\* ------------------------------------------------------------------ C8
\* C8: an insert of a block whose block_number has a row, or of a transaction
\* whose tx_hash has a row, that does not fail leaves every table the
\* transaction sees as it was, and the work on the block goes on.
C8_PutBlockPutTransactionIdempotent ==
    /\ [][(/\ pc = "insert_block"
           /\ BlockRowPresent(db_tx[1], MyBlock(ethers_block[1]).block_number)
           /\ pc' \notin {"crashed", "match_result"})
             => (db_tx' = db_tx /\ pc' \in {"fetch_receipt", "set_checkpoint"})]_vars
    /\ [][(/\ pc = "insert_tx"
           /\ \E r \in db_tx[1].transactions :
                 r.tx_hash = ethers_block[1].transactions[idx].hash
           /\ pc' \notin {"crashed", "match_result"})
             => (db_tx' = db_tx
                 /\ pc' \in {"insert_log", "fetch_receipt", "set_checkpoint"})]_vars

\* C8 witness: a transaction that has a row with a receipt status is about to
\* be inserted again, this time without a receipt.
C8_Witness ==
    /\ pc = "insert_tx"
    /\ receipt_option_for_tx = None
    /\ \E r \in db_tx[1].transactions :
          r.tx_hash = ethers_block[1].transactions[idx].hash /\ r.status # None

\* ------------------------------------------------------------------ C9
\* C9 as stated: after a failed commit of a block's transaction the ingester
\* does not continue its loop (it never reaches the poll sleep).
C9_CommitFailureFatalAsStated ==
    ~(pc = "sleep" /\ last_failure # None /\ last_failure[1].result = "err_commit")

\* C9 amended: a failed commit of a block's transaction is handled like every
\* other error of the block: it is logged, the batch is broken, the ingester
\* sleeps and starts a new cycle from the checkpoint; the task never exits.
C9_CommitFailureRetried ==
    /\ [](pc # "exited")
    /\ [][(pc = "match_result" /\ block_processing_result = "err_commit"
             /\ pc' # "crashed")
             => (pc' = "sleep" /\ last_failure' # None)]_vars
    /\ []((pc = "read_head" /\ last_failure # None
             /\ last_failure[1].result = "err_commit")
             => start_block_to_fetch = StartBlockToFetch(Checkpoint))

\* C9 witness: a new cycle has read the checkpoint after the commit of a
\* block failed.
C9_Witness ==
    /\ pc = "read_head"
    /\ last_failure # None
    /\ last_failure[1].result = "err_commit"

\* ------------------------------------------------------------------ C10
\* C10 as stated: after the fetch of block n (or of one of its receipts) has
\* exhausted its attempts, the next cycle starts at height n.
C10_FailRetriesSameHeightAsStated ==
    (pc = "read_head" /\ last_failure # None
       /\ last_failure[1].result \in FetchErrors)
        => start_block_to_fetch = last_failure[1].n

\* C10 amended: when the fetch of block n or of one of its receipts exhausts
\* its attempts, the block's transaction is rolled back (nothing of it
\* becomes visible), no further height is attempted in the cycle, and the
\* next cycle starts at checkpoint + 1, which is n or, when heights just
\* below n were skipped in the failed cycle, the lowest of those.
C10_FailRollsBackAndRetries ==
    /\ [][(block_processing_result' \in FetchErrors /\ pc' = "match_result"
             /\ pc # "match_result")
             => (store' = store /\ db_tx' = None)]_vars
    /\ [][(pc = "match_result" /\ block_processing_result \in FetchErrors
             /\ pc' # "crashed")
             => pc' = "sleep"]_vars
    /\ []((pc = "read_head" /\ last_failure # None
             /\ last_failure[1].result \in FetchErrors)
             => /\ start_block_to_fetch <= last_failure[1].n
                /\ \A h \in start_block_to_fetch .. (last_failure[1].n - 1) :
                      h \in skipped /\ ~BlockRowPresent(store, h)
                /\ NoRowPresent(store, last_failure[1].n))

\* C10 witness: the next cycle has read the checkpoint after a receipt fetch
\* failed for a block that follows a committed one.
C10_Witness ==
    /\ pc = "read_head"
    /\ last_failure # None
    /\ last_failure[1].result = "err_fetch_receipt"
    /\ start_block_to_fetch = last_failure[1].n
    /\ Checkpoint # None

\* ------------------------------------------------------------------ C11
\* The cycle has gone through its whole range and no height of it was
\* answered "not found".
RangeDoneNothingSkipped ==
    /\ pc = "for_loop"
    /\ block_num_u64 > end_block_to_fetch
    /\ \A h \in start_block_to_fetch .. end_block_to_fetch : h \notin skipped

C12_MissingReceiptNotFatal ==
    /\ [][(pc = "fetch_receipt" /\ pc' = "insert_tx"
             /\ receipt_option_for_tx' = None)
             => (block_processing_result' = "" /\ db_tx' = db_tx)]_vars
    /\ [][(pc = "insert_tx" /\ receipt_option_for_tx = None
             /\ pc' \notin {"crashed", "match_result"})
             => /\ \E r \in db_tx'[1].transactions :
                      /\ r.tx_hash = ethers_block[1].transactions[idx].hash
                      /\ r.status = None
                /\ db_tx'[1].logs = db_tx[1].logs
                /\ pc' \in {"fetch_receipt", "set_checkpoint"}]_vars
    /\ []((pc = "match_result" /\ block_processing_result = "ok_true")
             => /\ Checkpoint = Some(block_num_u64)
                /\ BlockRowPresent(store, block_num_u64)
                /\ \A i \in 1..TxCount(block_num_u64) :
                      \E r \in TxRowsOf(store, block_num_u64) :
                          r.tx_hash = TxHash(block_num_u64, i - 1)
                /\ \A r \in TxRowsOf(store, block_num_u64) :
                      r.status = None =>
                          \A l \in BagToSet(store.logs) :
                              l.transaction_hash # r.tx_hash)

\* C12 witness: block n was committed although the receipt of its first
\* transaction (which has logs when there is a receipt) was not found: the
\* row has no status, n has no log row, the checkpoint is n.
C12_Witness ==
    /\ pc = "match_result"
    /\ block_processing_result = "ok_true"
    /\ Checkpoint = Some(block_num_u64)
    /\ \E r \in TxRowsOf(store, block_num_u64) :
          r.tx_hash = TxHash(block_num_u64, 0) /\ r.status = None
    /\ LogRowsOf(store, block_num_u64) = {}

\* ------------------------------------------------------------------ C13
\* C13: every step that changes the committed tables commits one block: it
\* adds the block row of a height n above every block row already present
\* and above the checkpoint, and sets the checkpoint to n.  So the heights
\* of the committed blocks, in the order of their commits, strictly increase.
C13_AscendingOrder ==
    [][store' # store =>
         \E n \in DEFAULT_START_BLOCK .. MaxHeight :
            /\ store'.indexer_status = Some(n)
            /\ store.indexer_status = None \/ store.indexer_status[1] < n
            /\ \A q \in store.blocks : q.block_number < n
            /\ store.blocks \subseteq store'.blocks
            /\ \A r \in store'.blocks \ store.blocks : r.block_number = n
            /\ BlockRowPresent(store', n)]_vars

\* C13 witness: block n has just been committed in a cycle that skipped
\* height n - 1, above the committed block n - 2.
C13_Witness ==
    /\ pc = "match_result"
    /\ block_processing_result = "ok_true"
    /\ BlockRowPresent(store, block_num_u64)
    /\ (block_num_u64 - 1) \in skipped
    /\ ~BlockRowPresent(store, block_num_u64 - 1)
    /\ BlockRowPresent(store, block_num_u64 - 2)
    /\ start_block_to_fetch = block_num_u64 - 1

\* ------------------------------------------------------------------ C14
\* C14: the ingester holds no pooled connection or exactly one, and one
\* exactly while a block's transaction is open; a transaction begins only
\* when none is open, after the block before has been committed or rolled
\* back and its result handled; the checkpoint is read while none is open.
C14_OneTransactionAtATime ==
    /\ [](pool_in_use \in {0, 1})
    /\ [](pool_in_use = 1 <=> db_tx # None)
    /\ [](pc \in {"read_checkpoint", "read_head", "for_loop", "match_result",
                  "sleep"} => db_tx = None)
    /\ [][(db_tx = None /\ db_tx' # None)
             => /\ pool_in_use = 0
                /\ pc = "for_loop"
                /\ block_processing_result = ""
                /\ db_tx' = Some(store)]_vars

\* C14 witness: the transaction of the second block of a range is open,
\* after the first block of the range was committed.
C14_Witness ==
    /\ pc = "fetch_block"
    /\ pool_in_use = 1
    /\ db_tx # None
    /\ block_num_u64 = start_block_to_fetch + 1
    /\ Checkpoint = Some(start_block_to_fetch)

\* ------------------------------------------------------------------ C15
\* C15: at every moment, also while a block's transaction is open and after
\* the ingester was killed inside a block, what a Read API query sees of any
\* height n is all or nothing: if it sees a transaction row or a log row of
\* n, it sees the block row of n, a row for every transaction of n and the
\* logs of every transaction stored with a receipt.
C15_NoPartialBlockVisible ==
    LET seen == PoolView(store, db_tx) IN
    \A n \in DEFAULT_START_BLOCK .. MaxHeight :
        (TxRowsOf(seen, n) # {} \/ LogRowsOf(seen, n) # {})
            => AllRowsPresent(seen, n)

\* C15 witness: the ingester has written the block row and a transaction
\* row of block n inside its open transaction and is inserting logs; a query
\* sees nothing of n and sees the transactions of the block before.
C15_Witness ==
    /\ pc = "insert_log"
    /\ BlockRowPresent(db_tx[1], block_num_u64)
    /\ TxRowsOf(db_tx[1], block_num_u64) # {}
    /\ NoRowPresent(PoolView(store, db_tx), block_num_u64)
    /\ TxRowsOf(PoolView(store, db_tx), block_num_u64 - 1) # {}

\* ------------------------------------------------------------------ C16
\* The steps of the ingester task.  The runtime keeps running the task and
\* every call it awaits returns and every sleep ends, so the task does not
\* stop at an await for ever: weak fairness of its steps.  Kills and
\* restarts of the process are the environment's and carry no fairness.
Run ==
    \/ ReadCheckpoint
    \/ ReadHead
    \/ ForLoop
    \/ FetchBlock
    \/ SkipCommit
    \/ InsertBlock
    \/ FetchReceipt
    \/ InsertTransaction
    \/ InsertLog
    \/ SetCheckpoint
    \/ Commit
    \/ MatchResult
    \/ Wake

InitLive == InitOn(MaxLiveHeight)

SpecLive == InitLive /\ [][Next]_vars /\ WF_vars(Run)

\* A step in which the provider and the store are healthy: the process is not
\* killed, the checkpoint read succeeds, get_block_number answers the chain's
\* tip, no call of the provider or the store fails (a retried call included)
\* and no block is answered "not found".
HealthyStep ==
    /\ pc' # "crashed"
    /\ ~(pc = "read_checkpoint" /\ pc' = "sleep")
    /\ pc = "read_head" =>
          \/ pc' = "for_loop" /\ current_chain_head' = chain_tip
          \/ last_cycle'.end = "caught_up" /\ start_block_to_fetch > chain_tip
    /\ block_processing_result' \in {"", "ok_true"}
    /\ pc' # "skip_commit"
    /\ ~(pc' = pc /\ attempt' = attempt + 1)

\* C16: if from some point on the process is running and every step is
\* healthy, the head the provider answers being the chain's tip H, then the
\* checkpoint eventually equals H.  On the way every healthy commit of a
\* block n moves the checkpoint to n, and a cycle that reads checkpoint c
\* and head H works on c + 1 up to H, at most BLOCKS_PER_BATCH heights.
C16_ForwardProgress ==
    /\ (<>[][HealthyStep]_vars /\ <>[](pc # "crashed"))
          => <>(Checkpoint = Some(chain_tip))
    /\ [][(HealthyStep /\ pc = "commit" /\ pc' = "match_result")
             => store'.indexer_status = Some(block_num_u64)]_vars
    /\ [][(HealthyStep /\ pc = "read_head" /\ pc' = "for_loop")
             => /\ block_num_u64' = StartBlockToFetch(Checkpoint)
                /\ end_block_to_fetch' =
                      Min(block_num_u64' + BLOCKS_PER_BATCH - 1, chain_tip)]_vars

\* C16 witness: the checkpoint has reached the chain's tip in a cycle that
\* started above the default start block, after a cycle that failed.
C16_Witness ==
    /\ Checkpoint = Some(chain_tip)
    /\ pc = "match_result"
    /\ block_processing_result = "ok_true"
    /\ start_block_to_fetch > DEFAULT_START_BLOCK
    /\ skipped # {}

\* ------------------------------------------------------------------ C17
\* A step in which a call of the provider fails: get_block_number, or an
\* attempt of get_block_with_txs or of get_transaction_receipt.
RpcCallFails ==
    \/ pc = "read_head" /\ last_cycle'.end = "head_err"
    \/ /\ pc \in {"fetch_block", "fetch_receipt"}
       /\ \/ pc' = pc /\ attempt' = attempt + 1
          \/ block_processing_result' \in FetchErrors

\* C17: a step in which a call of the provider fails leaves the four tables
\* as they are, and the failure that exhausts the attempts closes the block's
\* transaction without a commit; reading the checkpoint writes nothing; and
\* through every further cycle of an outage (each ends at the failed read
\* of the head) the tables stay as they were.
C17_OutageLeavesStateUnchanged ==
    /\ [][RpcCallFails => store' = store]_vars
    /\ [][(RpcCallFails /\ block_processing_result' \in FetchErrors)
             => (db_tx' = None /\ pc' = "match_result")]_vars
    /\ [][pc = "read_checkpoint" => store' = store]_vars
    /\ [][(last_cycle.end = "head_err" /\ last_cycle'.end = "head_err")
             => (store' = store /\ db_tx' = None)]_vars

\* C17 witness: MaxStreak cycles in a row have ended at a failed read of the
\* head, with blocks, transactions, logs and a checkpoint in the tables.
C17_Witness ==
    /\ pc = "sleep"
    /\ last_cycle = [end |-> "head_err", streak |-> MaxStreak]
    /\ Checkpoint # None
    /\ store.transactions # {}
    /\ store.logs # EmptyBag

\* ------------------------------------------------------------------ C18
\* The positions of the ingester task; none of them is an exit.
TaskPcs == {"read_checkpoint", "read_head", "for_loop", "match_result", "sleep",
            "fetch_block", "skip_commit", "insert_block", "fetch_receipt",
            "insert_tx", "insert_log", "set_checkpoint", "commit"}

\* The task has met a recoverable failure: a cycle ended at a failed read of
\* the checkpoint or of the head or at a broken batch; a block ended with a
\* provider Err, a store Err or "not found"; a fetch is being retried.
RecoverableFailure ==
    \/ pc = "sleep" /\ last_cycle.end \in {"checkpoint_err", "head_err", "broken"}
    \/ pc = "match_result" /\ block_processing_result # "ok_true"
    \/ pc = "skip_commit"
    \/ pc \in {"fetch_block", "fetch_receipt"} /\ attempt > 1

\* C18: the task never exits (a running process is always at one of the
\* task's positions); a failed read of the checkpoint or of the head, and a
\* block that ended with Err, lead to the poll sleep, a block that was not
\* found to the next height of the range; and after every recoverable
\* failure a new cycle begins (unless the process is killed first).
C18_LoopContinues ==
    /\ [](pc \in TaskPcs \cup {"crashed"})
    /\ [][(pc = "read_checkpoint" /\ pc' \notin {"read_head", "crashed"})
             => pc' = "sleep"]_vars
    /\ [][(pc = "read_head" /\ pc' \notin {"for_loop", "crashed"})
             => pc' = "sleep"]_vars
    /\ [][(pc = "match_result" /\ pc' # "crashed")
             => pc' = (IF block_processing_result \in {"ok_true", "ok_false"}
                       THEN "for_loop" ELSE "sleep")]_vars
    /\ [][(pc = "sleep" /\ pc' # "crashed") => pc' = "read_checkpoint"]_vars
    /\ RecoverableFailure ~> (pc = "read_checkpoint" \/ pc = "crashed")

\* C18 witness: a new cycle begins after a cycle that ended at a failed read
\* of the checkpoint, which followed a batch broken by a store error after
\* its first blocks were committed, one height having been skipped.
C18_Witness ==
    /\ pc = "read_checkpoint"
    /\ last_cycle = [end |-> "checkpoint_err", streak |-> 1]
    /\ last_failure # None
    /\ last_failure[1].result \in StoreErrors
    /\ skipped # {}
    /\ Checkpoint # None

\* ------------------------------------------------------------------ C19
\* C19: the for loop is entered only with start <= head (so a cycle whose
\* checkpoint + 1 is above the head never opens a transaction); the step
\* that finds the ingester caught up goes to the poll sleep with the tables
\* unchanged and no transaction or connection held; and through every
\* further caught-up cycle the tables, the checkpoint among them, stay as
\* they were.
C19_CaughtUpIsIdle ==
    /\ [](pc \in TaskPcs \ {"read_checkpoint", "read_head", "sleep"}
            => /\ start_block_to_fetch <= current_chain_head
               /\ start_block_to_fetch <= end_block_to_fetch
               /\ end_block_to_fetch <= current_chain_head
               /\ start_block_to_fetch = StartBlockToFetch(observed[1]))
    /\ [][(pc = "read_head" /\ pc' = "sleep" /\ last_cycle'.end = "caught_up")
             => (store' = store /\ db_tx' = None /\ pool_in_use' = 0)]_vars
    /\ [][(last_cycle.end = "caught_up" /\ last_cycle'.end = "caught_up")
             => (store' = store /\ db_tx' = None /\ pool_in_use' = 0
                   /\ pc' \in {"sleep", "read_checkpoint", "read_head"})]_vars

\* C19 witness: MaxStreak cycles in a row found the ingester caught up, the
\* checkpoint being the chain's tip.
C19_Witness ==
    /\ pc = "sleep"
    /\ last_cycle = [end |-> "caught_up", streak |-> MaxStreak]
    /\ Checkpoint = Some(chain_tip)
    /\ observed = <<Checkpoint>>

\* ------------------------------------------------------------------ C20
\* The cycle read no checkpoint row, the provider answered the head
\* DEFAULT_START_BLOCK + 2, and the cycle has gone through its range without
\* a failure or a height not found.
ColdStartCycleDone ==
    /\ RangeDoneNothingSkipped
    /\ observed = <<None>>
    /\ current_chain_head = DEFAULT_START_BLOCK + 2

\* C20: a cycle starts at DEFAULT_START_BLOCK when and only when its read of
\* the checkpoint found no row, and at checkpoint + 1 otherwise; and a cycle
\* that found no row and the head DEFAULT_START_BLOCK + 2 and went through
\* without a failure has committed exactly the blocks DEFAULT_START_BLOCK ..
\* DEFAULT_START_BLOCK + 2, a row for each of their transactions and no
\* other, and the checkpoint DEFAULT_START_BLOCK + 2.
C20_ColdStart ==
    /\ pc \in TaskPcs \ {"read_checkpoint", "sleep"} =>
          /\ observed[1] = None => start_block_to_fetch = DEFAULT_START_BLOCK
          /\ observed[1] # None =>
                /\ start_block_to_fetch = observed[1][1] + 1
                /\ start_block_to_fetch > DEFAULT_START_BLOCK
    /\ ColdStartCycleDone =>
          /\ start_block_to_fetch = DEFAULT_START_BLOCK
          /\ end_block_to_fetch = DEFAULT_START_BLOCK + 2
          /\ {r.block_number : r \in store.blocks} =
                DEFAULT_START_BLOCK .. (DEFAULT_START_BLOCK + 2)
          /\ Cardinality(store.blocks) = 3
          /\ {r.tx_hash : r \in store.transactions} =
                UNION {{TxHash(n, i - 1) : i \in 1..TxCount(n)} :
                          n \in DEFAULT_START_BLOCK .. (DEFAULT_START_BLOCK + 2)}
          /\ Cardinality(store.transactions) =
                TxCount(DEFAULT_START_BLOCK) + TxCount(DEFAULT_START_BLOCK + 1)
                  + TxCount(DEFAULT_START_BLOCK + 2)
          /\ \A n \in DEFAULT_START_BLOCK .. (DEFAULT_START_BLOCK + 2) :
                AllRowsPresent(store, n)
          /\ Checkpoint = Some(DEFAULT_START_BLOCK + 2)

\* C20 witness: the first cycle of an empty store, with the head two above
\* the default start block, has committed its three blocks and their three
\* transactions, every receipt found.
C20_Witness ==
    /\ ColdStartCycleDone
    /\ Cardinality(store.transactions) = 3
    /\ \A r \in store.transactions : r.status # None
    /\ Checkpoint = Some(DEFAULT_START_BLOCK + 2)

\* ------------------------------------------------------------------ C21
\* C21: get_transaction_receipt is called at most MAX_RECEIPT_RETRIES times
\* for one transaction; a call that fails before the last attempt is
\* followed by the next attempt, and the block fails only on the Err of the
\* last attempt; when the call succeeds on attempt k exactly k calls were
\* made (k - 1 sleeps between them) and none is made for that transaction
\* afterwards; and when the block's commit then succeeds the block row, the
\* transaction rows and the logs of the receipts are visible and the
\* checkpoint is the block.
C21_ReceiptRetried ==
    /\ [](cycle_log.kind = "receipt" => cycle_log.calls <= MAX_RECEIPT_RETRIES)
    /\ [][(pc = "fetch_receipt" /\ pc' = "fetch_receipt")
             => /\ attempt < MAX_RECEIPT_RETRIES
                /\ attempt' = attempt + 1
                /\ cycle_log'.calls = attempt
                /\ db_tx' = db_tx /\ store' = store /\ idx' = idx]_vars
    /\ [][(pc = "fetch_receipt" /\ pc' = "match_result")
             => /\ cycle_log'.calls = MAX_RECEIPT_RETRIES
                /\ block_processing_result' = "err_fetch_receipt"]_vars
    /\ [][(pc = "fetch_receipt" /\ pc' = "insert_tx")
             => /\ cycle_log'.calls = attempt
                /\ Len(cycle_log'.waits) = attempt - 1
                /\ block_processing_result' = ""
                /\ db_tx' = db_tx]_vars
    /\ [][(pc # "fetch_receipt" /\ cycle_log.kind = "receipt"
             /\ cycle_log'.kind = "receipt" /\ cycle_log'.idx = cycle_log.idx)
             => cycle_log' = cycle_log]_vars
    /\ []((pc = "match_result" /\ block_processing_result = "ok_true"
             /\ cycle_log.kind = "receipt")
             => /\ AllRowsPresent(store, block_num_u64)
                /\ Checkpoint = Some(block_num_u64))

\* C21 witness: the block with one transaction was committed after the
\* receipt call failed twice and succeeded on the third attempt: three
\* calls, two sleeps, the transaction row with its status and its two logs
\* are visible, the checkpoint is the block.
C21_Witness ==
    /\ pc = "match_result"
    /\ block_processing_result = "ok_true"
    /\ TxCount(block_num_u64) = 1
    /\ cycle_log.kind = "receipt"
    /\ cycle_log.idx = 1
    /\ cycle_log.calls = 3
    /\ Len(cycle_log.waits) = 2
    /\ Checkpoint = Some(block_num_u64)
    /\ \E r \in TxRowsOf(store, block_num_u64) :
          r.tx_hash = TxHash(block_num_u64, 0) /\ r.status # None
    /\ Cardinality(LogRowsOf(store, block_num_u64)) = 2

\* ------------------------------------------------------------------ C26
\* C26: in every cycle that works on blocks, start is the checkpoint the
\* cycle read plus one (DEFAULT_START_BLOCK when it read none), end is
\* min(start + BLOCKS_PER_BATCH - 1, head) for the head the cycle read, and
\* the heights whose iteration began are start, start + 1, ... in this
\* order, none above end: at most BLOCKS_PER_BATCH heights, none above the
\* head.  The list grows only by the height the for loop is at.
C26_RangeComputation ==
    /\ [](pc \in TaskPcs \ {"read_checkpoint", "read_head", "sleep"}
            => /\ start_block_to_fetch =
                     (IF observed[1] = None THEN DEFAULT_START_BLOCK
                                            ELSE observed[1][1] + 1)
               /\ end_block_to_fetch =
                     Min(start_block_to_fetch + BLOCKS_PER_BATCH - 1,
                         current_chain_head)
               /\ \A i \in 1..Len(cycle_log.heights) :
                     /\ cycle_log.heights[i] = start_block_to_fetch + i - 1
                     /\ cycle_log.heights[i] <= end_block_to_fetch
                     /\ cycle_log.heights[i] <= current_chain_head
               /\ Len(cycle_log.heights) <= BLOCKS_PER_BATCH
               /\ pc # "for_loop" =>
                     /\ cycle_log.heights # <<>>
                     /\ cycle_log.heights[Len(cycle_log.heights)] = block_num_u64)
    /\ [](pc \in {"read_checkpoint", "read_head", "sleep", "crashed"}
            => cycle_log.heights = <<>>)
    /\ [][cycle_log'.heights # cycle_log.heights
             => \/ cycle_log'.heights = <<>>
                \/ /\ pc = "for_loop"
                   /\ cycle_log'.heights = Append(cycle_log.heights, block_num_u64)]_vars

\* C26 witness: the first cycle of an empty store has gone
\* through a full batch of BLOCKS_PER_BATCH heights while the head it read
\* is above the end of its range.
C26_Witness ==
    /\ pc = "for_loop"
    /\ Len(cycle_log.heights) = BLOCKS_PER_BATCH
    /\ block_num_u64 = end_block_to_fetch + 1
    /\ current_chain_head > end_block_to_fetch
    /\ end_block_to_fetch = start_block_to_fetch + BLOCKS_PER_BATCH - 1

\* ------------------------------------------------------------------ C27
\* C27: within the work on one block get_block_with_txs is called at most
\* MAX_BLOCK_FETCH_RETRIES times; a call that fails before the last attempt
\* is followed by the next attempt, nothing else changing; "not found" on
\* attempt k ends the fetch after exactly k calls, without a sleep, and the
\* block then ends with Ok(false) (or the Err of the empty commit) with the
\* tables unchanged and no further call; and the fetch fails only with the
\* Err of attempt MAX_BLOCK_FETCH_RETRIES.
C27_BlockFetchRetryPolicy ==
    /\ [](cycle_log.kind = "block" => cycle_log.calls <= MAX_BLOCK_FETCH_RETRIES)
    /\ [][(pc = "fetch_block" /\ pc' = "fetch_block")
             => /\ attempt < MAX_BLOCK_FETCH_RETRIES
                /\ attempt' = attempt + 1
                /\ cycle_log'.calls = attempt
                /\ db_tx' = db_tx /\ store' = store /\ skipped' = skipped
                /\ block_num_u64' = block_num_u64]_vars
    /\ [][(pc = "fetch_block" /\ pc' = "skip_commit")
             => /\ cycle_log'.calls = attempt
                /\ cycle_log'.waits = cycle_log.waits
                /\ db_tx' = db_tx /\ store' = store
                /\ block_num_u64 \in skipped']_vars
    /\ [][(pc = "skip_commit" /\ pc' # "crashed")
             => /\ pc' = "match_result"
                /\ block_processing_result' \in {"ok_false", "err_commit_skip"}
                /\ store' = store
                /\ cycle_log' = cycle_log]_vars
    /\ [][(pc = "fetch_block" /\ pc' = "match_result")
             => /\ attempt = MAX_BLOCK_FETCH_RETRIES
                /\ cycle_log'.calls = MAX_BLOCK_FETCH_RETRIES
                /\ Len(cycle_log'.waits) = MAX_BLOCK_FETCH_RETRIES - 1
                /\ block_processing_result' = "err_fetch_block"]_vars
    /\ [][(pc # "fetch_block" /\ cycle_log.kind = "block"
             /\ cycle_log'.kind = "block")
             => cycle_log' = cycle_log]_vars

\* C27 witness: the fetch of a block failed once and was then answered "not
\* found": two calls, one sleep, the block ended with Ok(false) and has no
\* row.
C27_Witness ==
    /\ pc = "match_result"
    /\ block_processing_result = "ok_false"
    /\ cycle_log.kind = "block"
    /\ cycle_log.calls = 2
    /\ Len(cycle_log.waits) = 1
    /\ block_num_u64 \in skipped
    /\ NoRowPresent(store, block_num_u64)
    /\ Checkpoint # None

\* ------------------------------------------------------------------ C28
\* C28: the step in which the receipt call of a transaction fails on its
\* last attempt finds the block row (and the rows of the transactions
\* before) written inside the open transaction, ends the block with Err,
\* closes the transaction without a commit and leaves the committed tables,
\* the checkpoint among them, as they were; after it no row of the block is
\* visible to a query, the checkpoint is below the block, and the batch is
\* broken with the tables still unchanged.
C28_ReceiptExhaustionFailsBlock ==
    /\ [][(pc = "fetch_receipt" /\ pc' = "match_result")
             => /\ block_processing_result' = "err_fetch_receipt"
                /\ BlockRowPresent(db_tx[1], block_num_u64)
                /\ \A i \in 1..(idx - 1) :
                      \E r \in TxRowsOf(db_tx[1], block_num_u64) :
                          r.tx_hash = ethers_block[1].transactions[i].hash
                /\ store' = store
                /\ db_tx' = None]_vars
    /\ []((pc = "match_result" /\ block_processing_result = "err_fetch_receipt")
             => /\ NoRowPresent(PoolView(store, db_tx), block_num_u64)
                /\ db_tx = None
                /\ Checkpoint = None \/ Checkpoint[1] < block_num_u64)
    /\ [][(pc = "match_result" /\ block_processing_result = "err_fetch_receipt"
             /\ pc' # "crashed")
             => (pc' = "sleep" /\ store' = store)]_vars

\* C28 witness: the receipt of the second transaction of a block could not
\* be fetched in MAX_RECEIPT_RETRIES attempts, after the block row, the
\* first transaction and its logs were inserted: nothing of the block is
\* visible and the checkpoint is the block before.
C28_Witness ==
    /\ pc = "match_result"
    /\ block_processing_result = "err_fetch_receipt"
    /\ TxCount(block_num_u64) = 2
    /\ cycle_log.kind = "receipt"
    /\ cycle_log.idx = 2
    /\ cycle_log.calls = MAX_RECEIPT_RETRIES
    /\ NoRowPresent(store, block_num_u64)
    /\ Checkpoint = Some(block_num_u64 - 1)

\* ------------------------------------------------------------------ C29
\* C29: after the k-th failed attempt of a block fetch that is not the last
\* the ingester sleeps BASE_BLOCK_FETCH_BACKOFF_SECONDS * 2^(k-1) seconds
\* and makes attempt k + 1, after that of a receipt fetch
\* BASE_RECEIPT_BACKOFF_SECONDS * 2^(k-1); the sleeps of one fetch are 2, 4
\* and 1, 2 seconds at most; and the failed last attempt ends the block
\* without a backoff sleep.
C29_ExponentialBackoff ==
    /\ [][(pc = "fetch_block" /\ pc' = "fetch_block")
             => /\ attempt < MAX_BLOCK_FETCH_RETRIES
                /\ cycle_log'.waits =
                      Append(cycle_log.waits,
                             BASE_BLOCK_FETCH_BACKOFF_SECONDS * 2 ^ (attempt - 1))
                /\ attempt' = attempt + 1]_vars
    /\ [][(pc = "fetch_receipt" /\ pc' = "fetch_receipt")
             => /\ attempt < MAX_RECEIPT_RETRIES
                /\ cycle_log'.waits =
                      Append(cycle_log.waits,
                             BASE_RECEIPT_BACKOFF_SECONDS * 2 ^ (attempt - 1))
                /\ attempt' = attempt + 1]_vars
    /\ [][(pc \in {"fetch_block", "fetch_receipt"} /\ pc' \notin {pc, "crashed"})
             => cycle_log'.waits = cycle_log.waits]_vars
    /\ [](cycle_log.kind = "block" => cycle_log.waits \in {<<>>, <<2>>, <<2, 4>>})
    /\ [](cycle_log.kind = "receipt" => cycle_log.waits \in {<<>>, <<1>>, <<1, 2>>})
    /\ [](pc \in {"fetch_block", "fetch_receipt"}
             => Len(cycle_log.waits) = attempt - 1)

\* C29 witness: the receipt fetch of a transaction has failed on its last
\* attempt, after sleeps of 1 and 2 seconds and no third one.
C29_Witness ==
    /\ pc = "match_result"
    /\ block_processing_result = "err_fetch_receipt"
    /\ cycle_log.kind = "receipt"
    /\ cycle_log.calls = MAX_RECEIPT_RETRIES
    /\ cycle_log.waits = <<1, 2>>

\* ------------------------------------------------------------------ C30
\* The rows a step adds to the committed tables.
RowsAdded(before, after) ==
    (after.blocks \ before.blocks)
        \cup (after.transactions \ before.transactions)
        \cup BagToSet(after.logs (-) before.logs)

\* C30 as stated: every block, transaction and log row that becomes visible
\* in the commit that sets the checkpoint to n carries block number n,
\* whatever the provider answered, answers without number fields included.
C30_RowsCarryCheckpointNumber ==
    [][(pc = "commit" /\ store' # store)
         => /\ store'.indexer_status = Some(block_num_u64)
            /\ \A r \in RowsAdded(store, store') :
                  r.block_number = block_num_u64]_vars

\* ----------------------------------------------------------------------
\* C24: for POST /logs the effective page size (the LIMIT sent to the store)
\* is the requested pageSize clamped to [1, 100]: 25 when pageSize is absent,
\* 1 for 0, 100 for anything above 100 and the requested value in between;
\* and the response never has more rows than that.
C24_PageSizeClamped ==
    api.handler = "logs"
      => LET requested == api.request.page_size
             effective == api.response.limit
         IN  /\ requested = None => effective = 25
             /\ requested # None /\ requested[1] < 1 => effective = 1
             /\ requested # None /\ requested[1] > 100 => effective = 100
             /\ requested # None /\ requested[1] \in 1..100
                  => effective = requested[1]
             /\ Len(api.response.rows) <= effective

\* pageSize 0 was asked for and one row came back, of several that match
C24_Witness ==
    /\ api.handler = "logs"
    /\ api.request.page_size = Some(0)
    /\ api.response.status = 200
    /\ Len(api.response.rows) = 1
    /\ Len(SelectLogs(PoolView(store, db_tx), GetLogsFilter(api.request))) > 1

\* ----------------------------------------------------------------------
\* C22: for POST /logs over fixed tables, the pages 1..K of a request with
\* pageSize P, put one after the other, are the first K*P rows of the
\* unpaginated result, which holds the matching rows of the table, each once,
\* in ascending order of (block_number, transaction_index, log_index): pages
\* do not overlap and skip no row.
SortKey(log) == <<log.block_number, log.transaction_index, log.log_index>>

\* (block_number, transaction_index, log_index) of a comes before that of b
KeyBefore(a, b) ==
    \/ a[1] < b[1]
    \/ a[1] = b[1] /\ a[2][1] < b[2][1]
    \/ a[1] = b[1] /\ a[2][1] = b[2][1] /\ a[3][1] < b[3][1]

\* The rows of pages 1..K of the request, one page after the other
RECURSIVE PagesUpTo(_, _, _)
PagesUpTo(tables, body, K) ==
    IF K = 0
    THEN <<>>
    ELSE PagesUpTo(tables, body, K - 1)
           \o get_logs_handler(tables, [body EXCEPT !.page = Some(K)], TRUE, TRUE).rows

C22_PagesConcatenate ==
    (api.handler = "logs" /\ api.response.status = 200)
      => LET tables == PoolView(store, db_tx)
             filters == GetLogsFilter(api.request)
             P == api.response.limit
             selected == SelectLogs(tables, filters)
             unpaginated == [j \in DOMAIN selected |-> LogFromRow(selected[j])]
             matching == {x \in BagToSet(tables.logs) : Where(filters, LogColumns(x))}
         IN  /\ \A i, j \in DOMAIN unpaginated :
                   i < j => KeyBefore(SortKey(unpaginated[i]), SortKey(unpaginated[j]))
             /\ {unpaginated[j] : j \in DOMAIN unpaginated} = matching
             /\ \A K \in 1..MaxPages :
                   PagesUpTo(tables, api.request, K)
                     = SubSeq(unpaginated, 1, Min(K * P, Len(unpaginated)))
             /\ Page(filters) <= MaxPages
                  => api.response.rows
                       = SubSeq(unpaginated, (Page(filters) - 1) * P + 1,
                                Min(Page(filters) * P, Len(unpaginated)))

\* Page 2 of pages of two rows was served, of a result of more than four rows
C22_Witness ==
    /\ api.handler = "logs"
    /\ api.response.status = 200
    /\ api.request.page = Some(2)
    /\ api.request.page_size = Some(2)
    /\ Len(api.response.rows) = 2
    /\ Len(SelectLogs(PoolView(store, db_tx), GetLogsFilter(api.request))) > 4

\* ----------------------------------------------------------------------
\* C23: GET /transaction/{hash} answers 400 for every path value that is not
\* a hash of 66 characters starting with "0x" (wrong length, no "0x"), and
\* sends a query to the store only for a well-formed hash.
WellFormedHash(str) == str.prefix /\ str.digits = H256_DIGITS

C23_MalformedHashAnswers400 ==
    api.handler = "transaction"
      => /\ ~WellFormedHash(api.request)
              => api.response.status = 400 /\ ~api.response.queried
         /\ api.response.queried => WellFormedHash(api.request)

\* ----------------------------------------------------------------------
\* C25: for POST /logs, a present blockHash alone selects the block and
\* fromBlock and toBlock are ignored; without blockHash the rows are those of
\* blocks fromBlock..toBlock, both ends included; the address and topic0..3
\* filters apply in both cases, all of them together.  The rows of a response
\* satisfy the filters, and a response that is not cut by LIMIT or OFFSET
\* holds every row of the table that satisfies them.
SameHexIgnoringCase(a, b) ==
    a.prefix = b.prefix /\ a.digits = b.digits /\ a.hex = b.hex

TopicIs(log, j, filter_opt) ==
    filter_opt # None
      => /\ j + 1 \in DOMAIN log.topics
         /\ SameHexIgnoringCase(log.topics[j + 1], filter_opt[1])

FiltersAccept(body, log) ==
    /\ IF body.block_hash # None
       THEN SameHexIgnoringCase(HexString(log.block_hash, H256_DIGITS),
                                body.block_hash[1])
       ELSE /\ body.from_block # None => log.block_number >= body.from_block[1]
            /\ body.to_block # None => log.block_number <= body.to_block[1]
    /\ body.address # None
         => SameHexIgnoringCase(HexString(log.address, H160_DIGITS), body.address[1])
    /\ TopicIs(log, 0, body.topic0)
    /\ TopicIs(log, 1, body.topic1)
    /\ TopicIs(log, 2, body.topic2)
    /\ TopicIs(log, 3, body.topic3)

C25_FiltersSelectRows ==
    (api.handler = "logs" /\ api.response.status = 200)
      => LET rows == api.response.rows
         IN  /\ \A j \in DOMAIN rows : FiltersAccept(api.request, rows[j])
             /\ (api.response.offset = 0 /\ Len(rows) < api.response.limit)
                  => \A x \in BagToSet(PoolView(store, db_tx).logs) :
                        FiltersAccept(api.request, x)
                          => \E j \in DOMAIN rows : rows[j] = x

\* ----------------------------------------------------------------------
\* C31: first write wins.  When the work on block n inserts a block whose
\* block_number, or a transaction whose tx_hash, has a row of different
\* content, the insert raises no error of its own and leaves the rows as they
\* are; and the commit of block n keeps every block and transaction row that
\* was there and sets the checkpoint to n.  Each key has one row throughout.
C31_FirstWriteWins ==
    /\ [][(/\ pc = "insert_block"
           /\ \E r \in db_tx[1].blocks :
                 /\ r.block_number = MyBlock(ethers_block[1]).block_number
                 /\ r # MyBlock(ethers_block[1])
           /\ pc' \notin {"crashed", "match_result"})
             => /\ db_tx'[1].blocks = db_tx[1].blocks
                /\ db_tx'[1].transactions = db_tx[1].transactions
                /\ pc' \in {"fetch_receipt", "set_checkpoint"}]_vars
    /\ [][(/\ pc = "insert_tx"
           /\ \E r \in db_tx[1].transactions :
                 /\ r.tx_hash = ethers_block[1].transactions[idx].hash
                 /\ r # MyTransaction(ethers_block[1].transactions[idx],
                                      receipt_option_for_tx)
           /\ pc' \notin {"crashed", "match_result"})
             => /\ db_tx'[1].blocks = db_tx[1].blocks
                /\ db_tx'[1].transactions = db_tx[1].transactions
                /\ pc' \in {"insert_log", "fetch_receipt", "set_checkpoint"}]_vars
    /\ [][(pc = "commit" /\ store' # store)
             => /\ store'.indexer_status = Some(block_num_u64)
                /\ store.blocks \subseteq store'.blocks
                /\ store.transactions \subseteq store'.transactions]_vars
    /\ [](/\ \A r1, r2 \in store.blocks :
               r1.block_number = r2.block_number => r1 = r2
          /\ \A r1, r2 \in store.transactions :
               r1.tx_hash = r2.tx_hash => r1 = r2)

\* Block n was written and committed and the checkpoint is n, but no block
\* row holds the content of block n (its hash): the answer came without its
\* number, as an earlier one had, and the row of that earlier block stayed.
C31_Witness ==
    /\ pc = "match_result"
    /\ block_processing_result = "ok_true"
    /\ store.indexer_status = Some(block_num_u64)
    /\ store.blocks # {}
    /\ \A r \in store.blocks : r.block_hash # block_num_u64

\* ----------------------------------------------------------------------
\* C32: the stored checkpoint never exceeds the highest chain head the
\* ingester has read: whenever there is a checkpoint, a head has been read
\* and the checkpoint is at most the highest head read so far.  Within one
\* cycle the checkpoint grows by at most BLOCKS_PER_BATCH over the value the
\* cycle read at its start (over DEFAULT_START_BLOCK - 1 when it read none).
CheckpointAtCycleStart ==
    IF observed[1] = None THEN DEFAULT_START_BLOCK - 1 ELSE observed[1][1]

C32_CheckpointBelowHead ==
    /\ Checkpoint # None
         => /\ highest_head # None
            /\ Checkpoint[1] <= highest_head[1]
    /\ (Checkpoint # None /\ observed # <<>>)
         => /\ Checkpoint[1] >= CheckpointAtCycleStart
            /\ Checkpoint[1] - CheckpointAtCycleStart <= BLOCKS_PER_BATCH

\* A cycle that read no checkpoint and a head BLOCKS_PER_BATCH blocks up has
\* brought the checkpoint to that head, the highest read so far
C32_Witness ==
    /\ observed = <<None>>
    /\ Checkpoint # None
    /\ highest_head = Checkpoint
    /\ Checkpoint[1] - CheckpointAtCycleStart = BLOCKS_PER_BATCH

\* ----------------------------------------------------------------------
\* C33: for POST /logs, for every page >= 1 that fits 64 unsigned bits and
\* every effective page size of 1..100, the handler sends the store an
\* OFFSET that is not negative and equals (page - 1) * pageSize: the
\* multiplication does not overflow and the conversion to a signed number
\* does not turn the product negative.
C33_OffsetExact ==
    (api.handler = "logs" /\ Page(GetLogsFilter(api.request)) >= 1)
      => LET page == Page(GetLogsFilter(api.request))
             page_size == api.response.limit
             offset == api.response.offset
         IN  /\ api.response.status # NO_RESPONSE
             /\ page_size \in 1..100
             /\ offset >= 0
             /\ offset % page_size = 0
             /\ offset \div page_size = page - 1

====
